---- MODULE Spec2Model ----
(***************************************************************************)
(* A model of the Brewin v3 interpreter (interpreterv3.py): the statement  *)
(* dispatcher, the call/return protocol, the scope stack, the heap of      *)
(* Value cells and Object field maps, and the prefix expression evaluator. *)
(*                                                                         *)
(* Conventions.                                                            *)
(*  - Statement indices are 1-based here (Python's are 0-based): every     *)
(*    index of the source is shifted by one, FuncInfo([], -1) has          *)
(*    start_ip 0.                                                          *)
(*  - A Python object with identity (a Value, a dict) is an index into the *)
(*    heaps `values` and `objects`; None is the index 0.                   *)
(*  - A token is a record that keeps the lexical class the source tests    *)
(*    with token[0] == '"', isdigit(), "." in token.                       *)
(*  - A handler is an operator from a machine record (the variables) to a  *)
(*    machine record; an exception leaves its name in `error` and the      *)
(*    state as the handler had made it when it was raised.                 *)
(***************************************************************************)
EXTENDS Integers, Sequences, FiniteSets, TLC

VARIABLES
  tokenized_program,  \* self.tokenized_program: one token sequence per line
  indents,            \* self.indents: indentation of every line
  ip,                 \* self.ip
  return_stack,       \* self.return_stack
  terminate,          \* self.terminate
  environment,        \* self.env_manager.environment: frames of block scopes
  values,             \* the heap of Value objects, by identity
  objects,            \* the heap of Object field dicts, by identity
  func_cache,         \* self.func_manager: name -> FuncInfo
  error,              \* "none", an ErrorType, or the Python exception raised
  output,             \* lines given to InterpreterBase.output
  inp,                \* lines InterpreterBase.get_input has still to deliver
  executed,           \* history: the statement indices dispatched so far
  calls,              \* history: one record per frame pushed by a funccall
  returned,           \* history: the call the last step returned from, if any
  made,               \* history: the visible values when each lambda was made
  declared,           \* history: the type keyword each declared Value was given
  expr,               \* the token sequence under evaluation (SpecEval only)
  evalres             \* its outcome (SpecEval only)

vars == <<tokenized_program, indents, ip, return_stack, terminate, environment,
          values, objects, func_cache, error, output, inp, executed, calls,
          returned, made, declared, expr, evalres>>

-----------------------------------------------------------------------------
(* Bounds of the model. *)

\* inputs of the programs are drawn from 0..MaxIn
MaxIn == 2
\* longest program run the model follows, in dispatched statements
MaxSteps == 100

-----------------------------------------------------------------------------
(* intbase.InterpreterBase keywords *)

ASSIGN_DEF == "assign"
FUNCCALL_DEF == "funccall"
FUNC_DEF == "func"
ENDFUNC_DEF == "endfunc"
IF_DEF == "if"
ELSE_DEF == "else"
ENDIF_DEF == "endif"
RETURN_DEF == "return"
WHILE_DEF == "while"
ENDWHILE_DEF == "endwhile"
VAR_DEF == "var"
LAMBDA_DEF == "lambda"
ENDLAMBDA_DEF == "endlambda"
PRINT_DEF == "print"
INPUT_DEF == "input"
STRTOINT_DEF == "strtoint"
INT_DEF == "int"
BOOL_DEF == "bool"
STRING_DEF == "string"
REFINT_DEF == "refint"
REFSTRING_DEF == "refstring"
REFBOOL_DEF == "refbool"
VOID_DEF == "void"
OBJECT_DEF == "object"
TRUE_DEF == "True"
FALSE_DEF == "False"
MAIN_FUNC == "main"
RESULT_DEF == "result"
THIS_DEF == "this"

-----------------------------------------------------------------------------
(* Tokens. k is the lexical class: "str" a quoted literal (q its characters), *)
(* "int" an all-digit or leading-minus token (n), "dot" a token with a "."   *)
(* (s the object part, f the field part), "formal" a name:type of a header   *)
(* (s, f), "word" any other token (s).                                       *)

W(s) == [k |-> "word", s |-> s, f |-> "", n |-> 0, q |-> <<>>]
N(n) == [k |-> "int", s |-> "", f |-> "", n |-> n, q |-> <<>>]
S(q) == [k |-> "str", s |-> "", f |-> "", n |-> 0, q |-> q]
D(o, f) == [k |-> "dot", s |-> o, f |-> f, n |-> 0, q |-> <<>>]
P(a, t) == [k |-> "formal", s |-> a, f |-> t, n |-> 0, q |-> <<>>]

\* the token as the string the source uses for a key of the function table
TokenName(token) ==
  IF token.k = "dot" THEN token.s \o "." \o token.f ELSE token.s

\* tokens[1:], tokens[i:]
Rest(tokens) == SubSeq(tokens, 2, Len(tokens))

-----------------------------------------------------------------------------
(* Values: class Value, with the payload v split by the Type it carries. *)

None == 0

NoCaptures == <<>>

FuncInfo(params, start_ip, captures) ==
  [params |-> params, start_ip |-> start_ip, captures |-> captures]

\* FuncInfo([], -1)
DefaultFuncInfo == FuncInfo(<<>>, 0, NoCaptures)

Value(t, n, b, q, d, fi) == [t |-> t, n |-> n, b |-> b, q |-> q, d |-> d, fi |-> fi]
IntV(n) == Value("INT", n, FALSE, <<>>, None, DefaultFuncInfo)
BoolV(b) == Value("BOOL", 0, b, <<>>, None, DefaultFuncInfo)
StrV(q) == Value("STRING", 0, FALSE, q, None, DefaultFuncInfo)
VoidV == Value("VOID", 0, FALSE, <<>>, None, DefaultFuncInfo)
FuncV(fi) == Value("FUNC", 0, FALSE, <<>>, None, fi)
ObjV(d) == Value("OBJECT", 0, FALSE, <<>>, d, DefaultFuncInfo)

\* the dict of type_to_default[OBJECT_DEF]: one dict, made once in __init__
DefaultDict == 1

\* self.type_to_default
TypeKeywords == {INT_DEF, STRING_DEF, BOOL_DEF, VOID_DEF, FUNC_DEF, OBJECT_DEF}

type_to_default(typename) ==
  CASE typename = INT_DEF -> IntV(0)
    [] typename = STRING_DEF -> StrV(<<>>)
    [] typename = BOOL_DEF -> BoolV(FALSE)
    [] typename = VOID_DEF -> VoidV
    [] typename = FUNC_DEF -> FuncV(DefaultFuncInfo)
    [] typename = OBJECT_DEF -> ObjV(DefaultDict)

\* self.compatible_types
CompatibleKeywords == {INT_DEF, STRING_DEF, BOOL_DEF, REFINT_DEF, REFSTRING_DEF,
                       REFBOOL_DEF, FUNC_DEF, OBJECT_DEF}

compatible_types(typename) ==
  CASE typename \in {INT_DEF, REFINT_DEF} -> "INT"
    [] typename \in {STRING_DEF, REFSTRING_DEF} -> "STRING"
    [] typename \in {BOOL_DEF, REFBOOL_DEF} -> "BOOL"
    [] typename = FUNC_DEF -> "FUNC"
    [] typename = OBJECT_DEF -> "OBJECT"

\* self.reference_types
reference_types == {REFINT_DEF, REFSTRING_DEF, REFBOOL_DEF, OBJECT_DEF}

\* self.type_to_result
type_to_result(t) ==
  CASE t = "INT" -> "i"
    [] t = "STRING" -> "s"
    [] t = "BOOL" -> "b"
    [] t = "FUNC" -> "f"
    [] t = "OBJECT" -> "o"

-----------------------------------------------------------------------------
(* The machine record and exceptions. *)

Cur ==
  [ip |-> ip, return_stack |-> return_stack, terminate |-> terminate,
   environment |-> environment, values |-> values, objects |-> objects,
   func_cache |-> func_cache, error |-> error, output |-> output, inp |-> inp]

\* super().error(kind, ...) and any Python exception: the run ends here
Raise(m, kind) == IF m.error = "none" THEN [m EXCEPT !.error = kind] ELSE m

Ok(m) == m.error = "none"

\* F(v), with v evaluated once: Python evaluates an expression when it binds it
Bind(v, F(_)) == CHOOSE y \in {F(w) : w \in {v}} : TRUE

\* a result of a helper that returns a Value: the machine and the Value's cell
Ret(m, c) == [m |-> m, c |-> c]
Fail(m, kind) == [m |-> Raise(m, kind), c |-> None]

\* a new Value object
Alloc(m, v) == Ret([m EXCEPT !.values = Append(@, v)], Len(m.values) + 1)

\* a new dict object
AllocDict(m, dict) ==
  [m |-> [m EXCEPT !.objects = Append(@, dict)], d |-> Len(m.objects) + 1]

EmptyMap == <<>>

\* evalres before the evaluation
NotEvaluated == [error |-> "pending", value |-> VoidV]

\* the names of a mapping, in a fixed order
RECURSIVE SetToSeq(_)
SetToSeq(set) ==
  IF set = {} THEN <<>>
  ELSE LET x == CHOOSE y \in set : TRUE IN <<x>> \o SetToSeq(set \ {x})

-----------------------------------------------------------------------------
(* env_v3.EnvironmentManager: a stack of frames, each a stack of block     *)
(* scopes, each a mapping name -> Value.                                   *)

\* the frame on top, self.environment[-1]
TopFrame(m) == m.environment[Len(m.environment)]

RECURSIVE FrameGet(_, _, _)
FrameGet(frame, i, symbol) ==
  IF i = 0 THEN None
  ELSE IF symbol \in DOMAIN frame[i] THEN frame[i][symbol]
  ELSE FrameGet(frame, i - 1, symbol)

\* get(symbol): innermost scope first, the frame on top only
EnvGet(m, symbol) ==
  IF m.environment = <<>> THEN None
  ELSE FrameGet(TopFrame(m), Len(TopFrame(m)), symbol)

\* the scope of the frame on top that get and set find the symbol in, 0 if none
RECURSIVE FrameFind(_, _, _)
FrameFind(frame, i, symbol) ==
  IF i = 0 THEN 0
  ELSE IF symbol \in DOMAIN frame[i] THEN i
  ELSE FrameFind(frame, i - 1, symbol)

SetBinding(m, block, symbol, c) ==
  LET top == Len(m.environment)
      scope == m.environment[top][block]
      scope2 == [s \in DOMAIN scope \cup {symbol} |->
                   IF s = symbol THEN c ELSE scope[s]]
  IN [m EXCEPT !.environment[top][block] = scope2]

\* create_new_symbol(symbol, create_in_top_block): OK is TRUE
EnvCreate(m, symbol, create_in_top_block) ==
  IF m.environment = <<>> \/ TopFrame(m) = <<>>
  THEN [m |-> Raise(m, "IndexError"), ok |-> FALSE]
  ELSE LET block == IF create_in_top_block THEN 1 ELSE Len(TopFrame(m)) IN
       IF symbol \notin DOMAIN TopFrame(m)[block]
       THEN [m |-> SetBinding(m, block, symbol, None), ok |-> TRUE]
       ELSE [m |-> m, ok |-> FALSE]

\* set(symbol, value): rebinds the symbol in the innermost scope that has it
EnvSet(m, symbol, c) ==
  IF m.environment = <<>> THEN Raise(m, "IndexError")
  ELSE LET block == FrameFind(TopFrame(m), Len(TopFrame(m)), symbol) IN
       IF block = 0 THEN m ELSE SetBinding(m, block, symbol, c)

\* import_mappings(dict): into the innermost scope of the frame on top
EnvImport(m, mappings) ==
  LET top == Len(m.environment)
      block == Len(m.environment[top])
  IN [m EXCEPT !.environment[top][block] = mappings @@ @]

EnvBlockNest(m) ==
  [m EXCEPT !.environment[Len(m.environment)] = Append(@, EmptyMap)]

EnvBlockUnnest(m) ==
  IF m.environment = <<>> \/ TopFrame(m) = <<>> THEN Raise(m, "IndexError")
  ELSE [m EXCEPT !.environment[Len(m.environment)] = SubSeq(@, 1, Len(@) - 1)]

EnvPush(m) == [m EXCEPT !.environment = Append(@, <<EmptyMap>>)]

EnvPop(m) ==
  IF m.environment = <<>> THEN Raise(m, "IndexError")
  ELSE [m EXCEPT !.environment = SubSeq(@, 1, Len(@) - 1)]

-----------------------------------------------------------------------------
(* func_v3.FunctionManager *)

\* the formals of a func or lambda header: every token between the name (or
\* the keyword) and the return type
Formals(tokens) == [i \in 1..Len(tokens) |-> [name |-> tokens[i].s, type |-> tokens[i].f]]

\* the function table built from the func headers of the program
InitFuncCache(program) ==
  LET heads == {i \in 1..Len(program) :
                  program[i] # <<>> /\ program[i][1].s = FUNC_DEF}
      lineOf(name) == CHOOSE i \in heads :
                        /\ program[i][2].s = name
                        /\ \A j \in heads : program[j][2].s = name => j <= i
  IN [name \in {program[i][2].s : i \in heads} |->
        FuncInfo(Formals(SubSeq(program[lineOf(name)], 3, Len(program[lineOf(name)]) - 1)),
                 lineOf(name) + 1, NoCaptures)]

\* the stack of declared return types after line i: a header pushes its last
\* token; the line after a terminator pops
RECURSIVE ReturnTypeStack(_, _, _, _)
ReturnTypeStack(program, i, last, stack) ==
  IF i > last THEN stack
  ELSE Bind(IF program[i] = <<>> THEN stack
            ELSE IF program[i][1].s \in {FUNC_DEF, LAMBDA_DEF}
                 THEN Append(stack, program[i][Len(program[i])].s)
            ELSE IF program[i][1].s \in {ENDFUNC_DEF, ENDLAMBDA_DEF} /\ stack # <<>>
                 THEN SubSeq(stack, 1, Len(stack) - 1)
            ELSE stack,
            LAMBDA stack2 : ReturnTypeStack(program, i + 1, last, stack2))

\* get_return_type_for_enclosing_function(line_num): a terminator still
\* belongs to the body it ends
ReturnTypeFor(program, line_num) ==
  Bind(IF program[line_num] # <<>>
          /\ program[line_num][1].s \in {ENDFUNC_DEF, ENDLAMBDA_DEF}
       THEN ReturnTypeStack(program, 1, line_num - 1, <<>>)
       ELSE ReturnTypeStack(program, 1, line_num, <<>>),
       LAMBDA stack : IF stack = <<>> THEN "None" ELSE stack[Len(stack)])

\* get_function_info(name): None is DefaultFuncInfo with found FALSE
HasFunction(m, name) == name \in DOMAIN m.func_cache

\* create_function(name, func_info)
CreateFunction(m, name, fi) ==
  [m EXCEPT !.func_cache = (name :> fi) @@ @]

\* set_lambda(args, ip, captures): the lambda becomes "resultf"
SetLambda(m, args, line, captures) ==
  CreateFunction(m, RESULT_DEF \o "f",
                 FuncInfo(Formals(SubSeq(args, 1, Len(args) - 1)), line + 1, captures))

-----------------------------------------------------------------------------
(* Strings are sequences of one-character strings; Python orders them by    *)
(* code point, which Alphabet lists in increasing order.                    *)

Alphabet == <<"-", "0", "1", "2", "3", "4", "5", "6", "7", "8", "9",
              "?", "F", "T", "a", "b", "e", "l", "r", "s", "u">>

Ord(ch) == CHOOSE i \in 1..Len(Alphabet) : Alphabet[i] = ch

Digits == <<"0", "1", "2", "3", "4", "5", "6", "7", "8", "9">>

\* a < b on str
RECURSIVE StrLess(_, _)
StrLess(a, b) ==
  IF b = <<>> THEN FALSE
  ELSE IF a = <<>> THEN TRUE
  ELSE IF Ord(Head(a)) # Ord(Head(b)) THEN Ord(Head(a)) < Ord(Head(b))
  ELSE StrLess(Tail(a), Tail(b))

\* str(n) for n >= 0
RECURSIVE NatToStr(_)
NatToStr(n) ==
  IF n < 10 THEN <<Digits[n + 1]>>
  ELSE NatToStr(n \div 10) \o <<Digits[(n % 10) + 1]>>

\* str(val_type.value()); the text of a dict or a FuncInfo holds addresses
\* and is written as "?"
PyStr(v) ==
  CASE v.t = "INT" -> IF v.n < 0 THEN <<"-">> \o NatToStr(-v.n) ELSE NatToStr(v.n)
    [] v.t = "BOOL" -> IF v.b THEN <<"T", "r", "u", "e">> ELSE <<"F", "a", "l", "s", "e">>
    [] v.t = "STRING" -> v.q
    [] OTHER -> <<"?">>

IsDigit(ch) == \E i \in 1..10 : Digits[i] = ch

RECURSIVE DigitsToNat(_)
DigitsToNat(q) ==
  IF q = <<>> THEN 0
  ELSE 10 * DigitsToNat(SubSeq(q, 1, Len(q) - 1))
       + ((CHOOSE i \in 1..10 : Digits[i] = q[Len(q)]) - 1)

\* int(s) succeeds on an optional minus sign and at least one digit
IsIntText(q) ==
  LET body == IF q # <<>> /\ Head(q) = "-" THEN Tail(q) ELSE q
  IN body # <<>> /\ \A i \in 1..Len(body) : IsDigit(body[i])

PyInt(q) ==
  IF Head(q) = "-" THEN -DigitsToNat(Tail(q)) ELSE DigitsToNat(q)

-----------------------------------------------------------------------------
(* _setup_operations *)

binary_op_list == {"+", "-", "*", "/", "%", "==", "!=", "<", "<=", ">", ">=", "&", "|"}

\* the operators registered for a type; self.binary_ops has no entry for the
\* other types (a KeyError)
binary_ops(t) ==
  CASE t = "INT" -> {"+", "-", "*", "/", "%", "==", "!=", ">", "<", ">=", "<="}
    [] t = "STRING" -> {"+", "==", "!=", ">", "<", ">=", "<="}
    [] t = "BOOL" -> {"&", "==", "!=", "|"}
    [] OTHER -> {}

\* Python's // and % on int: the quotient rounds toward minus infinity
FloorDiv(a, b) == a \div b
FloorMod(a, b) == a - b * (a \div b)

IntOp(op, a, b) ==
  CASE op = "+" -> IntV(a + b)
    [] op = "-" -> IntV(a - b)
    [] op = "*" -> IntV(a * b)
    [] op = "/" -> IntV(FloorDiv(a, b))
    [] op = "%" -> IntV(FloorMod(a, b))
    [] op = "==" -> BoolV(a = b)
    [] op = "!=" -> BoolV(a # b)
    [] op = ">" -> BoolV(a > b)
    [] op = "<" -> BoolV(a < b)
    [] op = ">=" -> BoolV(a >= b)
    [] op = "<=" -> BoolV(a <= b)

StrOp(op, a, b) ==
  CASE op = "+" -> StrV(a \o b)
    [] op = "==" -> BoolV(a = b)
    [] op = "!=" -> BoolV(a # b)
    [] op = ">" -> BoolV(StrLess(b, a))
    [] op = "<" -> BoolV(StrLess(a, b))
    [] op = ">=" -> BoolV(~StrLess(a, b))
    [] op = "<=" -> BoolV(~StrLess(b, a))

BoolOp(op, a, b) ==
  CASE op = "&" -> BoolV(a /\ b)
    [] op = "==" -> BoolV(a = b)
    [] op = "!=" -> BoolV(a # b)
    [] op = "|" -> BoolV(a \/ b)

\* operations[token](v1, v2), for two values of one type that registers token
ApplyOp(op, v1, v2) ==
  CASE v1.t = "INT" -> IntOp(op, v1.n, v2.n)
    [] v1.t = "STRING" -> StrOp(op, v1.q, v2.q)
    [] v1.t = "BOOL" -> BoolOp(op, v1.b, v2.b)

-----------------------------------------------------------------------------
(* _get_value, _set_value, _set_result *)

\* given a token, the Value object associated with it
_get_value(m, token) ==
  IF token.k = "str" THEN Alloc(m, StrV(token.q))
  ELSE IF token.k = "int" THEN Alloc(m, IntV(token.n))
  ELSE IF token.s \in {TRUE_DEF, FALSE_DEF} /\ token.k = "word"
       THEN Alloc(m, BoolV(token.s = TRUE_DEF))
  ELSE IF token.k = "dot" THEN
    LET oc == EnvGet(m, token.s) IN
    IF oc = None THEN Fail(m, "AttributeError")        \* None.value()
    ELSE LET ov == m.values[oc] IN
      IF ov.t = "VOID" THEN Fail(m, "TYPE_ERROR")      \* object_dict is None
      ELSE IF ov.t = "OBJECT" THEN
        IF token.f \in DOMAIN m.objects[ov.d]
        THEN Ret(m, m.objects[ov.d][token.f])
        ELSE Fail(m, "NAME_ERROR")
      ELSE IF ov.t = "STRING" THEN
        \* `variable in str` is a substring test, and str[variable] a TypeError
        IF \E i \in 1..Len(ov.q) : ov.q[i] = token.f
        THEN Fail(m, "TypeError")
        ELSE Fail(m, "NAME_ERROR")
      ELSE Fail(m, "TypeError")                        \* `variable in 0`
  ELSE
    LET val == EnvGet(m, token.s) IN
    IF val # None THEN Ret(m, val)
    ELSE IF HasFunction(m, token.s) THEN Alloc(m, FuncV(m.func_cache[token.s]))
    ELSE Fail(m, "NAME_ERROR")

\* Value.set(other)
ValueSet(m, c, other) == [m EXCEPT !.values[c] = other]

\* the branch of _set_value for a plain variable name
SetPlain(m, varname, to_value) ==
  LET value_type == EnvGet(m, varname.s) IN
  IF value_type = None THEN Raise(m, "NAME_ERROR")
  ELSE ValueSet(m, value_type, to_value)

\* the branch of _set_value for object.variable
SetField(m, varname, to) ==
  LET oc == EnvGet(m, varname.s) IN
  IF oc = None THEN Raise(m, "AttributeError")
  ELSE IF m.values[oc].t # "OBJECT" THEN Raise(m, "TypeError")
  ELSE LET d == m.values[oc].d
       IN [m EXCEPT !.objects[d] = (varname.f :> to) @@ @, !.values[oc] = ObjV(d)]

\* given a variable name and a Value object, associate the name with the value
\* _set_value that registers no function
_set_value_unregistered(m, varname, to) ==
  IF varname.k = "dot" THEN SetField(m, varname, to)
  ELSE SetPlain(m, varname, m.values[to])

_set_value(m, varname, to) ==
  Bind(IF m.values[to].t = "FUNC"
       THEN CreateFunction(m, TokenName(varname), m.values[to].fi)
       ELSE m,
       LAMBDA m1 : IF varname.k = "dot" THEN SetField(m1, varname, to)
                   ELSE SetPlain(m1, varname, m1.values[to]))

\* copy.copy(value): a new Value with the same type and the same payload
CopyValue(m, v) == Alloc(m, v)

\* bind the result variable of the value's type in the frame on top
_set_result(m, v) ==
  IF v.t = "VOID" THEN Raise(m, "KeyError")         \* self.type_to_result[Type.VOID]
  ELSE
  Bind(EnvCreate(m, RESULT_DEF \o type_to_result(v.t), TRUE), LAMBDA created :
    IF ~Ok(created.m) THEN created.m
    ELSE Bind(CopyValue(created.m, v), LAMBDA cp :
           EnvSet(cp.m, RESULT_DEF \o type_to_result(v.t), cp.c)))

-----------------------------------------------------------------------------
(* _eval_expression: prefix notation, scanned from the right with a stack *)

\* EvalBinary with the operands taken in the other order
EvalBinary_swapped(m, token, stack) ==
  LET n == Len(stack) IN
  IF n < 2 THEN [m |-> Raise(m, "IndexError"), stack |-> stack]
  ELSE
    LET v1 == m.values[stack[n - 1]]
        v2 == m.values[stack[n]]
    IN
    IF v1.t # v2.t THEN [m |-> Raise(m, "TYPE_ERROR"), stack |-> stack]
    ELSE IF v1.t \notin {"INT", "STRING", "BOOL"}
         THEN [m |-> Raise(m, "KeyError"), stack |-> stack]
    ELSE IF token.s \notin binary_ops(v1.t)
         THEN [m |-> Raise(m, "TYPE_ERROR"), stack |-> stack]
    ELSE IF v1.t = "INT" /\ token.s \in {"/", "%"} /\ v2.n = 0
         THEN [m |-> Raise(m, "ZeroDivisionError"), stack |-> stack]
    ELSE Bind(Alloc(m, ApplyOp(token.s, v1, v2)), LAMBDA r :
           [m |-> r.m, stack |-> Append(SubSeq(stack, 1, n - 2), r.c)])

\* the step of the loop for a binary operator token
EvalBinary(m, token, stack) ==
  LET n == Len(stack) IN
  IF n < 2 THEN [m |-> Raise(m, "IndexError"), stack |-> stack]  \* pop from empty list
  ELSE
    LET v1 == m.values[stack[n]]
        v2 == m.values[stack[n - 1]]
    IN
    IF v1.t # v2.t THEN [m |-> Raise(m, "TYPE_ERROR"), stack |-> stack]
    ELSE IF v1.t \notin {"INT", "STRING", "BOOL"}
         THEN [m |-> Raise(m, "KeyError"), stack |-> stack]
    ELSE IF token.s \notin binary_ops(v1.t)
         THEN [m |-> Raise(m, "TYPE_ERROR"), stack |-> stack]
    ELSE IF v1.t = "INT" /\ token.s \in {"/", "%"} /\ v2.n = 0
         THEN [m |-> Raise(m, "ZeroDivisionError"), stack |-> stack]
    ELSE Bind(Alloc(m, ApplyOp(token.s, v1, v2)), LAMBDA r :
           [m |-> r.m, stack |-> Append(SubSeq(stack, 1, n - 2), r.c)])

\* the step of the loop for "!"
EvalNot(m, stack) ==
  LET n == Len(stack) IN
  IF n < 1 THEN [m |-> Raise(m, "IndexError"), stack |-> stack]
  ELSE IF m.values[stack[n]].t # "BOOL"
       THEN [m |-> Raise(m, "TYPE_ERROR"), stack |-> stack]
  ELSE Bind(Alloc(m, BoolV(~m.values[stack[n]].b)), LAMBDA r :
         [m |-> r.m, stack |-> Append(SubSeq(stack, 1, n - 1), r.c)])

\* the step of the loop for an operand token
EvalOperand(m, token, stack) ==
  Bind(_get_value(m, token), LAMBDA r : [m |-> r.m, stack |-> Append(stack, r.c)])

EvalToken(m, token, stack) ==
  IF token.k = "word" /\ token.s \in binary_op_list THEN EvalBinary(m, token, stack)
  ELSE IF token.k = "word" /\ token.s = "!" THEN EvalNot(m, stack)
  ELSE EvalOperand(m, token, stack)

\* for token in reversed(tokens), then the check of the stack
RECURSIVE EvalTokens(_, _, _, _)
EvalTokens(m, tokens, i, stack) ==
  IF ~Ok(m) THEN Ret(m, None)
  ELSE IF i = 0 THEN
    IF Len(stack) # 1 THEN Fail(m, "SYNTAX_ERROR") ELSE Ret(m, stack[1])
  ELSE Bind(EvalToken(m, tokens[i], stack), LAMBDA r :
         EvalTokens(r.m, tokens, i - 1, r.stack))

_eval_expression(m, tokens) == EvalTokens(m, tokens, Len(tokens), <<>>)

-----------------------------------------------------------------------------
(* copy.deepcopy: st carries the machine and deepcopy's memo, for Values    *)
(* (memo) and for dicts (dmemo), so that shared and cyclic structure is     *)
(* copied once.                                                            *)

RECURSIVE DeepCopyCell(_, _), DeepCopyPayload(_, _), DeepCopyMap(_, _, _, _),
          DeepCopyScopes(_, _, _, _)

DeepCopyCell(st, c) ==
  IF c \in DOMAIN st.memo THEN [st |-> st, c |-> st.memo[c]]
  ELSE Bind(Alloc(st.m, st.m.values[c]), LAMBDA a :
         Bind(DeepCopyPayload([st EXCEPT !.m = a.m, !.memo = (c :> a.c) @@ @],
                              st.m.values[c]),
              LAMBDA r : [st |-> [r.st EXCEPT !.m.values[a.c] = r.v], c |-> a.c]))

DeepCopyPayload(st, v) ==
  IF v.t = "OBJECT" THEN
    IF v.d \in DOMAIN st.dmemo THEN [st |-> st, v |-> ObjV(st.dmemo[v.d])]
    ELSE Bind(AllocDict(st.m, EmptyMap), LAMBDA ad :
           Bind(DeepCopyMap([st EXCEPT !.m = ad.m, !.dmemo = (v.d :> ad.d) @@ @],
                            st.m.objects[v.d], SetToSeq(DOMAIN st.m.objects[v.d]),
                            EmptyMap),
                LAMBDA r : [st |-> [r.st EXCEPT !.m.objects[ad.d] = r.map],
                            v |-> ObjV(ad.d)]))
  ELSE IF v.t = "FUNC" THEN
    Bind(DeepCopyScopes(st, v.fi.captures, 1, <<>>), LAMBDA r :
      [st |-> r.st, v |-> FuncV([v.fi EXCEPT !.captures = r.scopes])])
  ELSE [st |-> st, v |-> v]

DeepCopyMap(st, map, names, acc) ==
  IF names = <<>> THEN [st |-> st, map |-> acc]
  ELSE Bind(DeepCopyCell(st, map[Head(names)]), LAMBDA r :
         Bind((Head(names) :> r.c) @@ acc, LAMBDA acc2 :
           DeepCopyMap(r.st, map, Tail(names), acc2)))

DeepCopyScopes(st, scopes, i, acc) ==
  IF i > Len(scopes) THEN [st |-> st, scopes |-> acc]
  ELSE Bind(DeepCopyMap(st, scopes[i], SetToSeq(DOMAIN scopes[i]), EmptyMap),
            LAMBDA r : Bind(Append(acc, r.map), LAMBDA acc2 :
                         DeepCopyScopes(r.st, scopes, i + 1, acc2)))

NoMemo == <<>>

\* copy.deepcopy(value) of a Value on the heap
DeepCopy(m, c) ==
  Bind(DeepCopyCell([m |-> m, memo |-> NoMemo, dmemo |-> NoMemo], c),
       LAMBDA r : Ret(r.st.m, r.c))

\* copy.deepcopy(value) of one of the Values of type_to_default
DeepCopyDefault(m, v) ==
  Bind(DeepCopyPayload([m |-> m, memo |-> NoMemo, dmemo |-> NoMemo], v),
       LAMBDA r : Alloc(r.st.m, r.v))

-----------------------------------------------------------------------------
(* The call protocol *)

\* BindParam without the comparison of the actual's type with the formal's
BindParam_untyped(m, formal, actual, tmp) ==
  Bind(_get_value(m, actual), LAMBDA got :
    IF ~Ok(got.m) THEN [m |-> got.m, tmp |-> tmp]
    ELSE IF formal.type \notin CompatibleKeywords
         THEN [m |-> Raise(got.m, "KeyError"), tmp |-> tmp]
    ELSE IF formal.type \in reference_types
         THEN [m |-> got.m, tmp |-> (formal.name :> got.c) @@ tmp]
    ELSE
      Bind(IF got.m.values[got.c].t = "FUNC"
           THEN CreateFunction(got.m, formal.name, got.m.values[got.c].fi)
           ELSE got.m,
           LAMBDA m1 : Bind(CopyValue(m1, m1.values[got.c]), LAMBDA cp :
                         [m |-> cp.m, tmp |-> (formal.name :> cp.c) @@ tmp])))

\* one formal and its actual: tmp is tmp_mappings
BindParam(m, formal, actual, tmp) ==
  Bind(_get_value(m, actual), LAMBDA got :
    IF ~Ok(got.m) THEN [m |-> got.m, tmp |-> tmp]
    ELSE IF formal.type \notin CompatibleKeywords
         THEN [m |-> Raise(got.m, "KeyError"), tmp |-> tmp]
    ELSE IF got.m.values[got.c].t # compatible_types(formal.type)
         THEN [m |-> Raise(got.m, "TYPE_ERROR"), tmp |-> tmp]
    ELSE IF formal.type \in reference_types
         THEN [m |-> got.m, tmp |-> (formal.name :> got.c) @@ tmp]
    ELSE
      Bind(IF got.m.values[got.c].t = "FUNC"
           THEN CreateFunction(got.m, formal.name, got.m.values[got.c].fi)
           ELSE got.m,
           LAMBDA m1 : Bind(CopyValue(m1, m1.values[got.c]), LAMBDA cp :
                         [m |-> cp.m, tmp |-> (formal.name :> cp.c) @@ tmp])))

\* the loop over zip(formal_params.params, args)
RECURSIVE BindParams(_, _, _, _, _)
BindParams(m, params, args, i, tmp) ==
  IF i > Len(params) \/ ~Ok(m) THEN [m |-> m, tmp |-> tmp]
  ELSE Bind(BindParam(m, params[i], args[i], tmp), LAMBDA r :
         BindParams(r.m, params, args, i + 1, r.tmp))

\* the loop over captures that leaves a name bound by a parameter as it is
RECURSIVE BindCaptureNames_keeping(_, _, _, _)
BindCaptureNames_keeping(m, scope, names, tmp) ==
  IF names = <<>> THEN [m |-> m, tmp |-> tmp]
  ELSE Bind(DeepCopy(m, scope[Head(names)]), LAMBDA cp :
         Bind(tmp @@ (Head(names) :> cp.c), LAMBDA tmp2 :
           BindCaptureNames_keeping(cp.m, scope, Tail(names), tmp2)))

\* the loop over captures: every captured Value is deep-copied into tmp
RECURSIVE BindCaptureNames(_, _, _, _)
BindCaptureNames(m, scope, names, tmp) ==
  IF names = <<>> THEN [m |-> m, tmp |-> tmp]
  ELSE Bind(DeepCopy(m, scope[Head(names)]), LAMBDA cp :
         Bind((Head(names) :> cp.c) @@ tmp, LAMBDA tmp2 :
           BindCaptureNames(cp.m, scope, Tail(names), tmp2)))

RECURSIVE BindCaptures(_, _, _, _)
BindCaptures(m, captures, i, tmp) ==
  IF i > Len(captures) THEN [m |-> m, tmp |-> tmp]
  ELSE Bind(BindCaptureNames(m, captures[i], SetToSeq(DOMAIN captures[i]), tmp),
            LAMBDA r : BindCaptures(r.m, captures, i + 1, r.tmp))

\* If object method, pass object into "this"
BindThis(m, funcname, tmp) ==
  IF funcname.k = "dot" THEN (THIS_DEF :> EnvGet(m, funcname.s)) @@ tmp ELSE tmp

\* create a new environment for a function call
_create_new_environment(m, funcname, args) ==
  IF ~HasFunction(m, TokenName(funcname)) THEN Raise(m, "NAME_ERROR")
  ELSE IF Len(m.func_cache[TokenName(funcname)].params) # Len(args)
       THEN Raise(m, "NAME_ERROR")
  ELSE
    Bind(BindParams(m, m.func_cache[TokenName(funcname)].params, args, 1, EmptyMap),
         LAMBDA bound :
      IF ~Ok(bound.m) THEN bound.m
      ELSE Bind(BindCaptures(bound.m, m.func_cache[TokenName(funcname)].captures,
                             1, bound.tmp),
                LAMBDA captured :
             Bind(EnvPush(captured.m), LAMBDA pushed :
               EnvImport(pushed, BindThis(captured.m, funcname, captured.tmp)))))

_find_first_instruction(m, funcname) ==
  IF ~HasFunction(m, TokenName(funcname)) THEN
    Bind(_get_value(m, funcname), LAMBDA got :
      IF Ok(got.m) THEN Raise(got.m, "TYPE_ERROR") ELSE got.m)
  ELSE [m EXCEPT !.ip = m.func_cache[TokenName(funcname)].start_ip]

_advance_to_next_statement(m) == [m EXCEPT !.ip = @ + 1]

\* a handler's last step: the exception raised before it skips it
AdvanceIfOk(m) == IF Ok(m) THEN _advance_to_next_statement(m) ELSE m

-----------------------------------------------------------------------------
(* The built-in functions *)

RECURSIVE PrintArgs(_, _, _, _)
PrintArgs(m, args, i, out) ==
  IF i > Len(args) THEN [m EXCEPT !.output = Append(@, out)]
  ELSE Bind(_get_value(m, args[i]), LAMBDA got :
         IF ~Ok(got.m) THEN got.m
         ELSE Bind(out \o PyStr(got.m.values[got.c]), LAMBDA out2 :
                PrintArgs(got.m, args, i + 1, out2)))

_print(m, args) ==
  IF args = <<>> THEN Raise(m, "SYNTAX_ERROR") ELSE PrintArgs(m, args, 1, <<>>)

\* get_input() reads the keyboard when no line is left: end of file
_input(m, args) ==
  Bind(IF args # <<>> THEN _print(m, args) ELSE m, LAMBDA m1 :
    IF ~Ok(m1) THEN m1
    ELSE IF m1.inp = <<>> THEN Raise(m1, "EOFError")
    ELSE Bind([m1 EXCEPT !.inp = Tail(@)], LAMBDA m2 :
           _set_result(m2, StrV(Head(m1.inp)))))

_strtoint(m, args) ==
  IF Len(args) # 1 THEN Raise(m, "SYNTAX_ERROR")
  ELSE Bind(_get_value(m, args[1]), LAMBDA got :
    IF ~Ok(got.m) THEN got.m
    ELSE IF got.m.values[got.c].t # "STRING" THEN Raise(got.m, "TYPE_ERROR")
    ELSE IF ~IsIntText(got.m.values[got.c].q) THEN Raise(got.m, "ValueError")
    ELSE _set_result(got.m, IntV(PyInt(got.m.values[got.c].q))))

-----------------------------------------------------------------------------
(* The statement handlers *)

ProgLen == Len(tokenized_program)

\* Python's list index: -1 (0 here) is the last line
At(i) == IF i = 0 THEN ProgLen ELSE i

Line(i) == tokenized_program[At(i)]

Indent(i) == indents[At(i)]

_blank_line(m) == _advance_to_next_statement(m)

\* the Value the assignment checks the new value against
ExistingValue(m, vname) ==
  IF vname.k # "dot" THEN _get_value(m, vname)
  ELSE Bind(_get_value(m, W(vname.s)), LAMBDA got :
         IF ~Ok(got.m) THEN got
         ELSE IF got.m.values[got.c].t # "OBJECT" THEN Fail(got.m, "TYPE_ERROR")
         ELSE Alloc(got.m, ObjV(None)))

_assign(m, tokens) ==
  IF Len(tokens) < 2 THEN Raise(m, "SYNTAX_ERROR")
  ELSE Bind(_eval_expression(m, Rest(tokens)), LAMBDA value_type :
    IF ~Ok(value_type.m) THEN value_type.m
    ELSE Bind(ExistingValue(value_type.m, tokens[1]), LAMBDA existing :
      IF ~Ok(existing.m) THEN existing.m
      ELSE IF existing.m.values[existing.c].t # "OBJECT"
              /\ existing.m.values[existing.c].t # existing.m.values[value_type.c].t
           THEN Raise(existing.m, "TYPE_ERROR")
      ELSE Bind(_set_value(existing.m, tokens[1], value_type.c), LAMBDA m1 :
             AdvanceIfOk(m1))))

\* funccall without the append to return_stack
_funccall_no_return_entry(m, args) ==
  IF args = <<>> THEN Raise(m, "SYNTAX_ERROR")
  ELSE IF args[1] = W(PRINT_DEF) THEN Bind(_print(m, Rest(args)), LAMBDA m1 : AdvanceIfOk(m1))
  ELSE IF args[1] = W(INPUT_DEF) THEN Bind(_input(m, Rest(args)), LAMBDA m1 : AdvanceIfOk(m1))
  ELSE IF args[1] = W(STRTOINT_DEF)
       THEN Bind(_strtoint(m, Rest(args)), LAMBDA m1 : AdvanceIfOk(m1))
  ELSE Bind(_create_new_environment(m, args[1], Rest(args)), LAMBDA m2 :
         IF Ok(m2) THEN _find_first_instruction(m2, args[1]) ELSE m2)

_funccall(m, args) ==
  IF args = <<>> THEN Raise(m, "SYNTAX_ERROR")
  ELSE IF args[1] = W(PRINT_DEF) THEN Bind(_print(m, Rest(args)), LAMBDA m1 : AdvanceIfOk(m1))
  ELSE IF args[1] = W(INPUT_DEF) THEN Bind(_input(m, Rest(args)), LAMBDA m1 : AdvanceIfOk(m1))
  ELSE IF args[1] = W(STRTOINT_DEF)
       THEN Bind(_strtoint(m, Rest(args)), LAMBDA m1 : AdvanceIfOk(m1))
  ELSE Bind([m EXCEPT !.return_stack = Append(@, m.ip + 1)], LAMBDA m1 :
         Bind(_create_new_environment(m1, args[1], Rest(args)), LAMBDA m2 :
           IF Ok(m2) THEN _find_first_instruction(m2, args[1]) ELSE m2))

\* self.ip = self.return_stack.pop()
PopReturn(m) ==
  IF ~Ok(m) THEN m
  ELSE IF m.return_stack = <<>> THEN Raise(m, "IndexError")
  ELSE [m EXCEPT !.ip = m.return_stack[Len(m.return_stack)],
                 !.return_stack = SubSeq(@, 1, Len(@) - 1)]

\* the result a function hands back: return_val, or the default of the
\* declared return type of the line at ip, or none for void
SetReturn(m, return_val) ==
  IF ~Ok(m) THEN m
  ELSE IF return_val # None THEN _set_result(m, m.values[return_val])
  ELSE Bind(ReturnTypeFor(tokenized_program, At(m.ip)), LAMBDA return_type :
         IF return_type = VOID_DEF THEN m
         ELSE IF return_type \notin TypeKeywords THEN Raise(m, "KeyError")
         ELSE _set_result(m, type_to_default(return_type)))

_endfunc(m, return_val) ==
  IF m.return_stack = <<>> THEN [m EXCEPT !.terminate = TRUE]
  ELSE Bind(EnvPop(m), LAMBDA m1 :
         Bind(SetReturn(m1, return_val), LAMBDA m2 : PopReturn(m2)))

_endlambda(m, return_val) ==
  Bind(EnvPop(m), LAMBDA m1 :
    Bind(SetReturn(m1, return_val), LAMBDA m2 : PopReturn(m2)))

\* the for loop of _if over the lines after the if
RECURSIVE IfScan(_, _)
IfScan(m, line_num) ==
  IF line_num > ProgLen THEN Raise(m, "SYNTAX_ERROR")
  ELSE IF Line(line_num) = <<>> THEN IfScan(m, line_num + 1)
  ELSE IF Line(line_num)[1].s = ENDIF_DEF /\ Indent(m.ip) = Indent(line_num)
       THEN [m EXCEPT !.ip = line_num + 1]
  ELSE IF Line(line_num)[1].s = ELSE_DEF /\ Indent(m.ip) = Indent(line_num)
       THEN EnvBlockNest([m EXCEPT !.ip = line_num + 1])
  ELSE IfScan(m, line_num + 1)

\* _if without the test of the condition's type
_if_untyped(m, args) ==
  IF args = <<>> THEN Raise(m, "SYNTAX_ERROR")
  ELSE Bind(_eval_expression(m, args), LAMBDA value_type :
    IF ~Ok(value_type.m) THEN value_type.m
    ELSE IF value_type.m.values[value_type.c] = BoolV(TRUE)
         THEN EnvBlockNest(_advance_to_next_statement(value_type.m))
    ELSE IfScan(value_type.m, value_type.m.ip + 1))

_if(m, args) ==
  IF args = <<>> THEN Raise(m, "SYNTAX_ERROR")
  ELSE Bind(_eval_expression(m, args), LAMBDA value_type :
    IF ~Ok(value_type.m) THEN value_type.m
    ELSE IF value_type.m.values[value_type.c].t # "BOOL"
         THEN Raise(value_type.m, "TYPE_ERROR")
    ELSE IF value_type.m.values[value_type.c].b
         THEN EnvBlockNest(_advance_to_next_statement(value_type.m))
    ELSE IfScan(value_type.m, value_type.m.ip + 1))

_endif(m) == EnvBlockUnnest(_advance_to_next_statement(m))

\* the for loop of _else over the lines after the else
RECURSIVE ElseScan(_, _)
ElseScan(m, line_num) ==
  IF line_num > ProgLen THEN Raise(m, "SYNTAX_ERROR")
  ELSE IF Line(line_num) = <<>> THEN ElseScan(m, line_num + 1)
  ELSE IF Line(line_num)[1].s = ENDIF_DEF /\ Indent(m.ip) = Indent(line_num)
       THEN [m EXCEPT !.ip = line_num + 1]
  ELSE ElseScan(m, line_num + 1)

\* _else that keeps the scope of the block above
_else_keeps_scope(m) == ElseScan(m, m.ip + 1)

_else(m) ==
  Bind(EnvBlockUnnest(m), LAMBDA m1 :
    IF Ok(m1) THEN ElseScan(m1, m1.ip + 1) ELSE m1)

\* the while loop of _exit_while and of _exit_lambda: tokenized_program[cur_line][0]
\* is read before the line is known to have a token
RECURSIVE ExitScan(_, _, _)
ExitScan(m, closer, cur_line) ==
  IF cur_line > ProgLen THEN Raise(m, "SYNTAX_ERROR")
  ELSE IF Line(cur_line) = <<>> THEN Raise(m, "IndexError")
  ELSE IF Line(cur_line)[1].s = closer /\ Indent(cur_line) = Indent(m.ip)
       THEN [m EXCEPT !.ip = cur_line + 1]
  ELSE IF Indent(cur_line) < Indent(m.ip) THEN Raise(m, "SYNTAX_ERROR")
  ELSE ExitScan(m, closer, cur_line + 1)

_exit_while(m) == ExitScan(m, ENDWHILE_DEF, m.ip + 1)

_while(m, args) ==
  IF args = <<>> THEN Raise(m, "SYNTAX_ERROR")
  ELSE Bind(_eval_expression(m, args), LAMBDA value_type :
    IF ~Ok(value_type.m) THEN value_type.m
    ELSE IF value_type.m.values[value_type.c].t # "BOOL"
         THEN Raise(value_type.m, "TYPE_ERROR")
    ELSE IF value_type.m.values[value_type.c].b = FALSE
         THEN _exit_while(value_type.m)
    ELSE EnvBlockNest(_advance_to_next_statement(value_type.m)))

\* the while loop of _endwhile, towards the start of the program
RECURSIVE EndwhileScan(_, _)
EndwhileScan(m, cur_line) ==
  IF cur_line < 1 THEN Raise(m, "SYNTAX_ERROR")
  ELSE IF Line(cur_line) = <<>> THEN Raise(m, "IndexError")
  ELSE IF Line(cur_line)[1].s = WHILE_DEF /\ Indent(cur_line) = Indent(m.ip)
       THEN [m EXCEPT !.ip = cur_line]
  ELSE IF Indent(cur_line) < Indent(m.ip) THEN Raise(m, "SYNTAX_ERROR")
  ELSE EndwhileScan(m, cur_line - 1)

_endwhile(m) ==
  Bind(EnvBlockUnnest(m), LAMBDA m1 :
    IF Ok(m1) THEN EndwhileScan(m1, m1.ip - 1) ELSE m1)

\* the while loop of _lambda_or_func: the first terminator after the return
RECURSIVE LambdaOrFuncScan(_, _, _)
LambdaOrFuncScan(m, return_val, cur_line) ==
  IF cur_line > ProgLen THEN Raise(m, "AssertionError")
  ELSE IF Line(cur_line) = <<>> THEN Raise(m, "IndexError")
  ELSE IF Line(cur_line)[1].s = ENDFUNC_DEF THEN _endfunc(m, return_val)
  ELSE IF Line(cur_line)[1].s = ENDLAMBDA_DEF THEN _endlambda(m, return_val)
  ELSE LambdaOrFuncScan(m, return_val, cur_line + 1)

\* determines if a return statement is bound to a function or lambda
_lambda_or_func(m, return_val) == LambdaOrFuncScan(m, return_val, m.ip + 1)

\* _return that hands every value on, whatever the declared return type
_return_untyped(m, args) ==
  IF args = <<>> THEN _lambda_or_func(m, None)
  ELSE Bind(_eval_expression(m, args), LAMBDA value_type :
    IF ~Ok(value_type.m) THEN value_type.m
    ELSE _lambda_or_func(value_type.m, value_type.c))

_return(m, args) ==
  Bind(ReturnTypeFor(tokenized_program, At(m.ip)), LAMBDA return_type :
    IF return_type \notin TypeKeywords THEN Raise(m, "KeyError")
    ELSE IF return_type = VOID_DEF THEN
      IF args # <<>> THEN Raise(m, "TYPE_ERROR") ELSE _lambda_or_func(m, None)
    ELSE IF args = <<>> THEN _lambda_or_func(m, None)
    ELSE Bind(_eval_expression(m, args), LAMBDA value_type :
      IF ~Ok(value_type.m) THEN value_type.m
      ELSE IF value_type.m.values[value_type.c].t # type_to_default(return_type).t
           THEN Raise(value_type.m, "TYPE_ERROR")
      ELSE _lambda_or_func(value_type.m, value_type.c)))

_exit_lambda(m) == ExitScan(m, ENDLAMBDA_DEF, m.ip + 1)

\* captures: the (name, Value) pairs of every scope of the frame on top, the
\* outermost scope first
Captures(m) == TopFrame(m)

\* _lambda that takes copies of the captured Values when the lambda is made
_lambda_snapshot(m, args) ==
  Bind(DeepCopyScopes([m |-> m, memo |-> NoMemo, dmemo |-> NoMemo], Captures(m), 1, <<>>),
       LAMBDA snap :
    Bind(SetLambda(snap.st.m, args, m.ip, snap.scopes), LAMBDA m1 :
      Bind(_set_result(m1, FuncV(m1.func_cache[RESULT_DEF \o "f"])), LAMBDA m2 :
        IF Ok(m2) THEN _exit_lambda(m2) ELSE m2)))

_lambda(m, args) ==
  Bind(SetLambda(m, args, m.ip, Captures(m)), LAMBDA m1 :
    Bind(_set_result(m1, FuncV(m1.func_cache[RESULT_DEF \o "f"])), LAMBDA m2 :
      IF Ok(m2) THEN _exit_lambda(m2) ELSE m2))

\* the loop of _define_var that binds the default Value itself, without a copy,
\* so that the names of one statement share it
RECURSIVE DefineVars_shared(_, _, _)
DefineVars_shared(m, args, i) ==
  IF i > Len(args) THEN m
  ELSE Bind(EnvCreate(m, args[i].s, FALSE), LAMBDA created :
    IF ~Ok(created.m) THEN created.m
    ELSE IF ~created.ok THEN Raise(created.m, "NAME_ERROR")
    ELSE IF args[1].s \notin TypeKeywords THEN Raise(created.m, "TYPE_ERROR")
    ELSE Bind(IF i = 2 THEN DeepCopyDefault(created.m, type_to_default(args[1].s))
              ELSE Ret(created.m, EnvGet(created.m, args[2].s)), LAMBDA cp :
           Bind(EnvSet(cp.m, args[i].s, cp.c), LAMBDA m2 :
             DefineVars_shared(m2, args, i + 1))))

\* the loop of _define_var over args[1:]
RECURSIVE DefineVars(_, _, _)
DefineVars(m, args, i) ==
  IF i > Len(args) THEN m
  ELSE Bind(EnvCreate(m, args[i].s, FALSE), LAMBDA created :
    IF ~Ok(created.m) THEN created.m
    ELSE IF ~created.ok THEN Raise(created.m, "NAME_ERROR")
    ELSE IF args[1].s \notin TypeKeywords THEN Raise(created.m, "TYPE_ERROR")
    ELSE Bind(DeepCopyDefault(created.m, type_to_default(args[1].s)), LAMBDA cp :
           Bind(EnvSet(cp.m, args[i].s, cp.c), LAMBDA m2 : DefineVars(m2, args, i + 1))))

_define_var(m, args) ==
  IF Len(args) < 2 THEN Raise(m, "SYNTAX_ERROR")
  ELSE Bind(DefineVars(m, args, 2), LAMBDA m1 : AdvanceIfOk(m1))

-----------------------------------------------------------------------------
(* Programs. A line is its indentation and its tokens; a and b are the      *)
(* numbers the program text is instantiated with.                           *)

L(ind, tokens) == [ind |-> ind, tokens |-> tokens]

\* a line of plain words
Ws(ind, words) == L(ind, [i \in 1..Len(words) |-> W(words[i])])

Blank == L(0, <<>>)

\* input and strtoint, value and reference parameters, a call inside an if
\* whose result is read after the endif, blank lines between statements
ProgCalls(a, b) == <<
  Ws(0, <<"func", "main", "void">>),
  Ws(2, <<"var", "int", "x", "y">>),
  L(2, <<W("funccall"), W("input"), S(<<"?">>)>>),
  Ws(2, <<"funccall", "strtoint", "results">>),
  L(2, <<W("assign"), W("x"), N(a)>>),
  L(2, <<W("assign"), W("y"), N(b)>>),
  Blank,
  Ws(2, <<"funccall", "incr", "x", "y">>),
  L(2, <<W("funccall"), W("print"), W("x"), S(<<"a">>), W("y")>>),
  L(2, <<W("if"), W(">"), W("y"), N(0)>>),
  Ws(4, <<"funccall", "sum", "x", "y">>),
  Ws(2, <<"endif">>),
  Ws(2, <<"assign", "y", "resulti">>),
  Ws(0, <<"endfunc">>),
  Blank,
  L(0, <<W("func"), W("incr"), P("r", "refint"), P("v", "int"), W("void")>>),
  L(2, <<W("assign"), W("r"), W("+"), W("r"), N(1)>>),
  L(2, <<W("assign"), W("v"), W("+"), W("v"), N(10)>>),
  Ws(0, <<"endfunc">>),
  L(0, <<W("func"), W("sum"), P("p", "int"), P("q", "int"), W("int")>>),
  Ws(2, <<"return", "+", "p", "q">>),
  Ws(0, <<"endfunc">>) >>

\* while, if and else, nested blocks, declarations in blocks, recursion
ProgLoop(a, b) == <<
  Ws(0, <<"func", "main", "void">>),
  Ws(2, <<"var", "int", "n", "acc">>),
  L(2, <<W("assign"), W("n"), N(a)>>),
  L(2, <<W("while"), W(">"), W("n"), N(0)>>),
  Ws(4, <<"var", "int", "t">>),
  L(4, <<W("if"), W("=="), W("%"), W("n"), N(2), N(0)>>),
  Ws(6, <<"assign", "acc", "+", "acc", "n">>),
  Ws(4, <<"else">>),
  Ws(6, <<"var", "int", "t">>),
  L(6, <<W("assign"), W("acc"), W("+"), W("acc"), N(1)>>),
  Ws(4, <<"endif">>),
  L(4, <<W("assign"), W("n"), W("-"), W("n"), N(1)>>),
  Ws(2, <<"endwhile">>),
  L(2, <<W("if"), W(">"), W("acc"), N(b)>>),
  Ws(4, <<"var", "bool", "big">>),
  Ws(4, <<"assign", "big", "True">>),
  Ws(2, <<"else">>),
  Ws(4, <<"var", "string", "big">>),
  Ws(2, <<"endif">>),
  L(2, <<W("assign"), W("n"), N(a)>>),
  Ws(2, <<"funccall", "fact", "n">>),
  Ws(0, <<"endfunc">>),
  L(0, <<W("func"), W("fact"), P("k", "int"), W("int")>>),
  L(2, <<W("if"), W("<="), W("k"), N(0)>>),
  L(4, <<W("return"), N(1)>>),
  Ws(2, <<"endif">>),
  Ws(2, <<"var", "int", "j">>),
  L(2, <<W("assign"), W("j"), W("-"), W("k"), N(1)>>),
  Ws(2, <<"funccall", "fact", "j">>),
  Ws(2, <<"return", "*", "k", "resulti">>),
  Ws(0, <<"endfunc">>) >>

\* a lambda that captures v and is invoked twice after v was assigned again;
\* a second lambda whose reference parameter has the name of a captured variable
ProgLambda(a, b) == <<
  Ws(0, <<"func", "main", "void">>),
  Ws(2, <<"var", "int", "v", "w">>),
  L(2, <<W("assign"), W("v"), N(a)>>),
  L(2, <<W("lambda"), P("r", "refint"), W("int")>>),
  Ws(4, <<"assign", "r", "+", "r", "v">>),
  Ws(4, <<"return", "v">>),
  Ws(2, <<"endlambda">>),
  L(2, <<W("assign"), W("v"), N(b)>>),
  Ws(2, <<"funccall", "resultf", "w">>),
  L(2, <<W("assign"), W("v"), W("+"), W("v"), N(1)>>),
  Ws(2, <<"funccall", "resultf", "w">>),
  L(2, <<W("lambda"), P("v", "refint"), W("void")>>),
  L(4, <<W("assign"), W("v"), N(9)>>),
  Ws(2, <<"endlambda">>),
  Ws(2, <<"funccall", "resultf", "w">>),
  Ws(2, <<"funccall", "print", "w">>),
  Ws(0, <<"endfunc">>) >>

\* a lambda that captures a result variable which a later return binds again
ProgStale(a, b) == <<
  Ws(0, <<"func", "main", "void">>),
  L(2, <<W("funccall"), W("sum"), N(a), N(1)>>),
  Ws(2, <<"lambda", "int">>),
  Ws(4, <<"return", "resulti">>),
  Ws(2, <<"endlambda">>),
  L(2, <<W("funccall"), W("sum"), N(b), N(5)>>),
  L(2, <<W("assign"), W("resulti"), N(9)>>),
  Ws(2, <<"funccall", "resultf">>),
  Ws(0, <<"endfunc">>),
  L(0, <<W("func"), W("sum"), P("p", "int"), P("q", "int"), W("int")>>),
  Ws(2, <<"return", "+", "p", "q">>),
  Ws(0, <<"endfunc">>) >>

\* functions that return without an expression, and a field assigned to the
\* Object that such a return gave
ProgObject(a, b) == <<
  Ws(0, <<"func", "main", "void">>),
  Ws(2, <<"funccall", "mk">>),
  L(2, <<W("assign"), D("resulto", "a"), N(a)>>),
  Ws(2, <<"funccall", "zero">>),
  Ws(2, <<"funccall", "text">>),
  Ws(2, <<"funccall", "flag">>),
  Ws(2, <<"funccall", "mk">>),
  L(2, <<W("funccall"), W("print"), D("resulto", "a"), W("resulti"), W("results"),
         W("resultb")>>),
  Ws(0, <<"endfunc">>),
  Ws(0, <<"func", "mk", "object">>),
  Ws(0, <<"endfunc">>),
  Ws(0, <<"func", "zero", "int">>),
  Ws(2, <<"return">>),
  Ws(0, <<"endfunc">>),
  Ws(0, <<"func", "text", "string">>),
  Ws(0, <<"endfunc">>),
  Ws(0, <<"func", "flag", "bool">>),
  Ws(2, <<"return">>),
  Ws(0, <<"endfunc">>) >>

\* the callee of ProgErrors: unknown, declared, declared with a keyword that
\* is no parameter type
ErrCallee(a) == IF a = 0 THEN "nofun" ELSE IF a = 2 THEN "bad" ELSE "incr"

\* the actuals of ProgErrors: one too few, a bool for an int, an undeclared
\* name, two ints
ErrActuals(b) ==
  IF b = 0 THEN <<"x">>
  ELSE IF b = 1 THEN <<"x", "flag">>
  ELSE IF b = 2 THEN <<"x", "ghost">>
  ELSE <<"x", "y">>

\* calls that end in an error instead of entering the callee
ProgErrors(a, b) == <<
  Ws(0, <<"func", "main", "void">>),
  Ws(2, <<"var", "int", "x", "y">>),
  Ws(2, <<"var", "bool", "flag">>),
  Ws(2, <<"funccall", ErrCallee(a)>> \o ErrActuals(b)),
  Ws(2, <<"funccall", "print", "x">>),
  Ws(0, <<"endfunc">>),
  L(0, <<W("func"), W("incr"), P("r", "refint"), P("v", "int"), W("void")>>),
  L(2, <<W("assign"), W("r"), W("+"), W("r"), N(1)>>),
  Ws(0, <<"endfunc">>),
  L(0, <<W("func"), W("bad"), P("r", "refint"), P("z", "float"), W("void")>>),
  Ws(0, <<"endfunc">>) >>

\* return statements in main: one before a lambda literal, one after it
ProgReturnMain(a, b) == <<
  Ws(0, <<"func", "main", "void">>),
  Ws(2, <<"var", "int", "x">>),
  L(2, <<W("assign"), W("x"), N(a)>>),
  L(2, <<W("if"), W("=="), W("x"), N(0)>>),
  Ws(4, <<"return">>),
  Ws(2, <<"endif">>),
  Ws(2, <<"lambda", "void">>),
  Ws(4, <<"funccall", "print", "x">>),
  Ws(2, <<"endlambda">>),
  L(2, <<W("if"), W("=="), W("x"), N(1)>>),
  Ws(4, <<"return">>),
  Ws(2, <<"endif">>),
  Ws(0, <<"endfunc">>) >>

\* a call inside an if block that declares, or does not declare, a variable
\* with the name of the result variable
ProgShadow(a, b) == <<
  Ws(0, <<"func", "main", "void">>),
  Ws(2, <<"var", "int", "x">>),
  L(2, <<W("assign"), W("x"), N(a)>>),
  L(2, <<W("if"), W(">="), W("x"), N(1)>>),
  Ws(4, <<"var", "int", IF b = 0 THEN "resulti" ELSE "tmp">>),
  Ws(4, <<"funccall", "twice", "x">>),
  Ws(2, <<"endif">>),
  Ws(2, <<"funccall", "print", "resulti">>),
  Ws(0, <<"endfunc">>),
  L(0, <<W("func"), W("twice"), P("k", "int"), W("int")>>),
  Ws(2, <<"return", "+", "k", "k">>),
  Ws(0, <<"endfunc">>) >>

\* a blank line inside the body of a while
ProgBlank(a, b) == <<
  Ws(0, <<"func", "main", "void">>),
  Ws(2, <<"var", "int", "n">>),
  L(2, <<W("assign"), W("n"), N(a)>>),
  L(2, <<W("while"), W(">"), W("n"), N(0)>>),
  Blank,
  L(4, <<W("assign"), W("n"), W("-"), W("n"), N(1)>>),
  Ws(2, <<"endwhile">>),
  Ws(0, <<"endfunc">>) >>

\* bodies without endfunc: main runs into the next header, tail runs off the
\* end of the program
ProgMissingEnd(a, b) == <<
  Ws(0, <<"func", "main", "void">>),
  Ws(2, <<"var", "int", "x">>),
  L(2, <<W("if"), W("=="), N(a), N(0)>>),
  Ws(4, <<"funccall", "tail">>),
  Ws(2, <<"endif">>),
  Ws(0, <<"func", "tail", "void">>),
  Ws(2, <<"var", "int", "z">>) >>

\* the expression of the return in num: a string, a bool, an int
NumReturns(b) ==
  IF b = 0 THEN <<S(<<"s">>)>> ELSE IF b = 1 THEN <<W("True")>>
  ELSE <<W("+"), N(1), N(2)>>

\* the expression of the return in the lambda: an int, a bool
LambdaReturns(b) == IF b = 0 THEN <<W("x")>> ELSE <<W("=="), W("x"), N(2)>>

\* returns with an expression in a void function, and with an expression of
\* another type than the declared one, in a function and in a lambda
ProgReturnType(a, b) == <<
  Ws(0, <<"func", "main", "void">>),
  Ws(2, <<"var", "int", "x">>),
  L(2, <<W("assign"), W("x"), N(a)>>),
  Ws(2, <<"lambda", "bool">>),
  L(4, <<W("return")>> \o LambdaReturns(b)),
  Ws(2, <<"endlambda">>),
  L(2, <<W("if"), W("=="), W("x"), N(0)>>),
  Ws(4, <<"funccall", "quiet">>),
  Ws(2, <<"endif">>),
  L(2, <<W("if"), W("=="), W("x"), N(1)>>),
  Ws(4, <<"funccall", "num">>),
  Ws(2, <<"endif">>),
  L(2, <<W("if"), W(">="), W("x"), N(2)>>),
  Ws(4, <<"funccall", "resultf">>),
  Ws(2, <<"endif">>),
  Ws(2, <<"funccall", "print", "x">>),
  Ws(0, <<"endfunc">>),
  Ws(0, <<"func", "quiet", "void">>),
  L(2, <<W("return")>> \o (IF b = 0 THEN <<N(1)>> ELSE <<>>)),
  Ws(0, <<"endfunc">>),
  Ws(0, <<"func", "num", "int">>),
  L(2, <<W("return")>> \o NumReturns(b)),
  Ws(0, <<"endfunc">>) >>

\* an assignment to a declared object, or to a declared int, of a value of
\* another type
RetypeAssign(b) ==
  IF b = 0 THEN <<W("o"), N(5)>>
  ELSE IF b = 1 THEN <<W("n"), S(<<"s">>)>>
  ELSE <<W("n"), N(7)>>

ProgRetype(a, b) == <<
  Ws(0, <<"func", "main", "void">>),
  Ws(2, <<"var", "object", "o">>),
  Ws(2, <<"var", "int", "n">>),
  L(2, <<W("assign"), D("o", "f"), N(a)>>),
  L(2, <<W("assign")>> \o RetypeAssign(b)),
  Ws(2, <<"funccall", "print", "n">>),
  Ws(2, <<"assign", "n", "+", "n", "o">>),
  Ws(2, <<"funccall", "print", "n">>),
  Ws(0, <<"endfunc">>) >>

\* two declared objects, one assigned from the other or not, and a field
\* assigned from a declared int
ProgAlias(a, b) == <<
  Ws(0, <<"func", "main", "void">>),
  Ws(2, <<"var", "object", "o", "p">>),
  Ws(2, <<"var", "int", "n", "k">>),
  L(2, <<W("assign"), D("o", "f"), N(a)>>),
  IF b = 0 THEN Ws(2, <<"assign", "p", "o">>)
  ELSE L(2, <<W("assign"), D("p", "f"), N(b)>>),
  L(2, <<W("assign"), D("o", "f"), N(9)>>),
  L(2, <<W("funccall"), W("print"), D("p", "f"), W("n"), W("k")>>),
  L(2, <<W("assign"), W("n"), N(a)>>),
  L(2, <<W("assign"), D("o", "g"), W("n")>>),
  L(2, <<W("assign"), W("n"), N(3)>>),
  L(2, <<W("funccall"), W("print"), D("o", "g"), W("n"), W("k")>>),
  Ws(0, <<"endfunc">>) >>

\* the second function of the programs without terminator: it holds a block
\* whose terminator has the indentation of the opener in main
DedentBlock(closer) ==
  IF closer = "endif" THEN L(2, <<W("if"), W("=="), N(1), N(1)>>)
  ELSE IF closer = "endwhile" THEN L(2, <<W("while"), W("=="), N(1), N(0)>>)
  ELSE Ws(2, <<"lambda", "void">>)

DedentTail(closer) == <<
  Ws(0, <<"endfunc">>),
  Ws(0, <<"func", "other", "void">>),
  Ws(2, <<"var", "int", "z">>),
  DedentBlock(closer),
  Ws(4, <<"var", "int", "y">>),
  Ws(2, <<closer>>),
  Ws(0, <<"endfunc">>) >>

\* an else without endif, and an endwhile without while
DedentElse(a) == <<
  Ws(0, <<"func", "main", "void">>),
  Ws(2, <<"var", "int", "x">>),
  L(2, <<W("if"), W("=="), N(a), N(0)>>),
  L(4, <<W("assign"), W("x"), N(1)>>),
  Ws(2, <<"else">>),
  L(4, <<W("assign"), W("x"), N(2)>>),
  Ws(4, <<"endwhile">>) >> \o DedentTail("endif")

\* an if, a while or a lambda without terminator
DedentOpener(a, b) == <<
  Ws(0, <<"func", "main", "void">>),
  Ws(2, <<"var", "int", "x">>),
  IF b >= 2 THEN Ws(2, <<"lambda", "void">>)
  ELSE L(2, <<W(IF a = 0 THEN "if" ELSE "while"), W("=="), W("x"), N(9)>>),
  L(4, <<W("assign"), W("x"), N(1)>>) >>
  \o DedentTail(IF b >= 2 THEN "endlambda" ELSE IF a = 0 THEN "endif" ELSE "endwhile")

\* blocks whose terminator is missing, with a terminator of the same
\* indentation in a later function
ProgDedent(a, b) == IF b = 0 THEN DedentElse(a) ELSE DedentOpener(a, b)

\* a blank line in the body of a lambda literal (b = 0), and between a
\* return and the endfunc of its function (b = 1)
ProgBlankBody(a, b) == <<
  Ws(0, <<"func", "main", "void">>),
  Ws(2, <<"var", "int", "x">>),
  Ws(2, <<"lambda", "void">>),
  IF b = 0 THEN Blank ELSE L(4, <<W("assign"), W("x"), N(1)>>),
  Ws(4, <<"funccall", "print", "x">>),
  Ws(2, <<"endlambda">>),
  Ws(2, <<"funccall", "pick">>),
  Ws(2, <<"funccall", "print", "resulti">>),
  Ws(0, <<"endfunc">>),
  Ws(0, <<"func", "pick", "int">>),
  L(2, <<W("if"), W("=="), N(a), N(0)>>),
  L(4, <<W("return"), N(1)>>),
  Ws(2, <<"endif">>),
  IF b = 1 THEN Blank ELSE Ws(2, <<"var", "int", "t">>),
  L(2, <<W("return"), N(2)>>),
  Ws(0, <<"endfunc">>) >>

\* an if with else whose condition is true, false, an int or a string, with an
\* empty line in its first body; an if without else
IfCondition(a, b) ==
  IF b = 0 THEN <<W(">"), W("n"), N(0)>>
  ELSE IF b = 1 THEN <<W("n")>>
  ELSE <<W("s")>>

ProgIf(a, b) == <<
  Ws(0, <<"func", "main", "void">>),
  Ws(2, <<"var", "int", "n">>),
  Ws(2, <<"var", "string", "s">>),
  L(2, <<W("assign"), W("n"), N(a)>>),
  L(2, <<W("if")>> \o IfCondition(a, b)),
  Blank,
  L(4, <<W("assign"), W("s"), S("t")>>),
  Ws(2, <<"else">>),
  L(4, <<W("assign"), W("s"), S("e")>>),
  Ws(2, <<"endif">>),
  L(2, <<W("if"), W("=="), W("n"), N(1)>>),
  L(4, <<W("assign"), W("s"), S("one")>>),
  Ws(2, <<"endif">>),
  Ws(2, <<"funccall", "print", "s">>),
  Ws(0, <<"endfunc">>) >>

\* a lambda literal inside an if block that declares, or not, a variable with
\* the name of the Func result variable
ProgLambdaShadow(a, b) == <<
  Ws(0, <<"func", "main", "void">>),
  Ws(2, <<"var", "int", "x">>),
  L(2, <<W("assign"), W("x"), N(a)>>),
  L(2, <<W("if"), W(">="), W("x"), N(1)>>),
  Ws(4, <<"var", "func", IF b = 0 THEN "resultf" ELSE "f">>),
  Ws(4, <<"lambda", "int">>),
  L(6, <<W("return"), N(7)>>),
  Ws(4, <<"endlambda">>),
  Ws(4, <<"funccall", "resultf">>),
  Ws(2, <<"endif">>),
  Ws(2, <<"funccall", "print", "resulti">>),
  Ws(0, <<"endfunc">>) >>

\* assignments of expressions: operators with too few operands, too many
\* operands, a division by zero, "!" of an int, and well-formed ones
ExprShapes == <<
  <<W("+"), N(2)>>,
  <<W("!")>>,
  <<W("+"), N(2), N(3), N(4)>>,
  <<W("/"), N(4), N(0)>>,
  <<W("!"), N(2)>>,
  <<N(2), N(3)>>,
  <<W("+"), N(2), N(3)>>,
  <<W("-"), W("+"), N(2)>>,
  <<W("!"), W("<"), W("x"), N(1)>> >>

ExprShape(a, b) ==
  IF a * 3 + b + 1 \in DOMAIN ExprShapes THEN ExprShapes[a * 3 + b + 1]
  ELSE <<W("*"), W("x"), N(a)>>

ProgExpr(a, b) == <<
  Ws(0, <<"func", "main", "void">>),
  Ws(2, <<"var", "int", "x">>),
  L(2, <<W("assign"), W("x")>> \o ExprShape(a, b)),
  Ws(2, <<"funccall", "print", "x">>),
  Ws(0, <<"endfunc">>) >>

\* a dotted token read in an expression (a = 0) or as an argument of print:
\* a field the Object has, a field it has not, and a field of an int or of a
\* string
FieldToken(a, b) ==
  IF b = 0 THEN D("o", "f")
  ELSE IF b = 1 THEN D("o", "g")
  ELSE IF a <= 1 THEN D("n", "f")
  ELSE D("s", "f")

ProgField(a, b) == <<
  Ws(0, <<"func", "main", "void">>),
  Ws(2, <<"var", "object", "o">>),
  Ws(2, <<"var", "int", "n">>),
  Ws(2, <<"var", "string", "s">>),
  L(2, <<W("assign"), D("o", "f"), N(a + 1)>>),
  IF a = 0 THEN L(2, <<W("assign"), W("n"), FieldToken(a, b)>>)
           ELSE L(2, <<W("funccall"), W("print"), FieldToken(a, b)>>),
  L(2, <<W("funccall"), W("print"), W("n"), D("o", "f")>>),
  Ws(0, <<"endfunc">>) >>

\* a method that assigns fields through this, called through o with p an
\* alias of o (b = 0), and a function that assigns a field through its
\* object parameter
ProgMethod(a, b) == <<
  Ws(0, <<"func", "main", "void">>),
  Ws(2, <<"var", "object", "o", "p">>),
  L(2, <<W("assign"), D("o", "f"), N(a)>>),
  L(2, <<W("assign"), D("o", "set"), W("setf")>>),
  IF b = 0 THEN Ws(2, <<"assign", "p", "o">>)
  ELSE L(2, <<W("assign"), D("p", "f"), N(b)>>),
  L(2, <<W("funccall"), D("o", "set"), N(5)>>),
  L(2, <<W("funccall"), W("print"), D("o", "f"), D("p", "f")>>),
  L(2, <<W("funccall"), W("bump"), W(IF b = 1 THEN "o" ELSE "p")>>),
  L(2, <<W("funccall"), W("print"), D("o", "f"), D("p", "f")>>),
  Ws(0, <<"endfunc">>),
  L(0, <<W("func"), W("setf"), P("v", "int"), W("void")>>),
  L(2, <<W("assign"), D("this", "f"), W("v")>>),
  L(2, <<W("assign"), D("this", "g"), W("+"), W("v"), N(1)>>),
  Ws(0, <<"endfunc">>),
  L(0, <<W("func"), W("bump"), P("q", "object"), W("void")>>),
  L(2, <<W("assign"), D("q", "f"), W("+"), D("q", "f"), N(1)>>),
  Ws(0, <<"endfunc">>) >>

\* a lambda with an object parameter, called with w, that assigns a field
\* through the parameter; main has a variable with the parameter's name (b = 0)
\* or not
ProgObjectParam(a, b) == <<
  Ws(0, <<"func", "main", "void">>),
  Ws(2, <<"var", "object", "q", "w">>),
  L(2, <<W("assign"), D("w", "f"), N(a)>>),
  L(2, <<W("lambda"), P(IF b = 0 THEN "q" ELSE "r", "object"), W("void")>>),
  L(4, <<W("assign"), D(IF b = 0 THEN "q" ELSE "r", "f"), N(9)>>),
  Ws(2, <<"endlambda">>),
  Ws(2, <<"funccall", "resultf", "w">>),
  L(2, <<W("funccall"), W("print"), D("w", "f")>>),
  Ws(0, <<"endfunc">>) >>

\* a call that binds a func formal named f (b = 0), or that assigns a Func
\* value to its variable f, and a call of f after it has returned; f is also
\* the name of a function of the program
ProgRegister(a, b) == <<
  Ws(0, <<"func", "main", "void">>),
  IF b = 0 THEN Ws(2, <<"funccall", "take", IF a = 0 THEN "g" ELSE "h">>)
  ELSE Ws(2, <<"funccall", "setlocal">>),
  Ws(2, <<"funccall", "f">>),
  Ws(2, <<"funccall", "print", "resulti">>),
  Ws(0, <<"endfunc">>),
  L(0, <<W("func"), W("take"), P("f", "func"), W("void")>>),
  Ws(0, <<"endfunc">>),
  Ws(0, <<"func", "setlocal", "void">>),
  Ws(2, <<"var", "func", "f">>),
  Ws(2, <<"assign", "f", IF a = 0 THEN "g" ELSE "h">>),
  Ws(0, <<"endfunc">>),
  Ws(0, <<"func", "f", "int">>),
  L(2, <<W("return"), N(1)>>),
  Ws(0, <<"endfunc">>),
  Ws(0, <<"func", "g", "int">>),
  L(2, <<W("return"), N(2)>>),
  Ws(0, <<"endfunc">>),
  Ws(0, <<"func", "h", "int">>),
  L(2, <<W("return"), N(3)>>),
  Ws(0, <<"endfunc">>) >>

Programs(a, b) ==
  << ProgCalls(a, b), ProgLoop(a, b), ProgLambda(a, b), ProgStale(a, b),
     ProgObject(a, b), ProgErrors(a, b), ProgReturnMain(a, b), ProgShadow(a, b),
     ProgBlank(a, b), ProgMissingEnd(a, b), ProgReturnType(a, b),
     ProgRetype(a, b), ProgAlias(a, b), ProgDedent(a, b),
     ProgBlankBody(a, b), ProgIf(a, b), ProgLambdaShadow(a, b),
     ProgExpr(a, b), ProgField(a, b), ProgMethod(a, b),
     ProgObjectParam(a, b), ProgRegister(a, b) >>

NumPrograms == Len(Programs(0, 0))

\* the lines that get_input can deliver
InputLines == { <<"7">>, <<"a">> }

-----------------------------------------------------------------------------
(* The state after __init__ and the head of run(): the function table is    *)
(* built, ip is the first statement of main, the scope stack holds the      *)
(* frame of main, the heap of dicts holds the dict of the default Object.   *)

InitMachine(program) ==
  /\ tokenized_program = [i \in 1..Len(program) |-> program[i].tokens]
  /\ indents = [i \in 1..Len(program) |-> program[i].ind]
  /\ func_cache = InitFuncCache([i \in 1..Len(program) |-> program[i].tokens])
  /\ ip = func_cache[MAIN_FUNC].start_ip
  /\ return_stack = <<>>
  /\ terminate = FALSE
  /\ environment = << <<EmptyMap>> >>
  /\ values = <<>>
  /\ objects = <<EmptyMap>>
  /\ error = "none"
  /\ output = <<>>
  /\ executed = <<>>
  /\ calls = <<>>
  /\ returned = <<>>
  /\ made = <<>>
  /\ declared = <<>>

Init ==
  /\ \E a \in 0..MaxIn, b \in 0..MaxIn, pid \in 1..NumPrograms :
       InitMachine(Programs(a, b)[pid])
  /\ \E line \in InputLines : inp = <<line>>
  /\ expr = <<>>
  /\ evalres = NotEvaluated

-----------------------------------------------------------------------------
(* The run loop: while not self.terminate: self._process_line()            *)

Running == ~terminate /\ error = "none" /\ Len(executed) < MaxSteps

\* Python reads tokenized_program[-1], the last line, at index -1
InRange == ip \in 0..ProgLen

\* tokens = self.tokenized_program[self.ip]
Tokens == IF InRange THEN Line(ip) ELSE <<>>

Args == Rest(Tokens)

\* the caller's Value of every actual that is a plain variable, else None
ArgCells(m, args) ==
  [i \in 1..Len(args) |-> IF args[i].k = "word" THEN EnvGet(m, args[i].s) ELSE None]

\* history: what the call that pushes a frame is given
CallRecord ==
  [name |-> TokenName(Args[1]),
   fi |-> func_cache[TokenName(Args[1])],
   args |-> Rest(Args),
   cells |-> ArgCells(Cur, Rest(Args)),
   before |-> [i \in 1..Len(Rest(Args)) |->
                 IF ArgCells(Cur, Rest(Args))[i] = None THEN VoidV
                 ELSE values[ArgCells(Cur, Rest(Args))[i]]],
   assigned |-> EmptyMap,
   at |-> Len(executed) + 1]

\* history: the step assigns to a formal parameter of the function on top
AssignsFormal(m) ==
  /\ Tokens # <<>> /\ Tokens[1].s = ASSIGN_DEF /\ Ok(m)
  /\ calls # <<>> /\ Len(m.environment) = Len(environment)
  /\ Args[1].k = "word"
  /\ \E i \in 1..Len(calls[Len(calls)].fi.params) :
       calls[Len(calls)].fi.params[i].name = Args[1].s
  /\ FrameFind(TopFrame(Cur), Len(TopFrame(Cur)), Args[1].s) = 1

\* history: the frames pushed by funccall, with what the call was given and
\* what the callee assigned to its formals
CallsAfter(m) ==
  IF Len(m.environment) > Len(environment) THEN Append(calls, CallRecord)
  ELSE IF Len(m.environment) < Len(environment)
       THEN SubSeq(calls, 1, Len(calls) - 1)
  ELSE IF AssignsFormal(m)
       THEN [calls EXCEPT ![Len(calls)].assigned =
               (Args[1].s :> m.values[EnvGet(m, Args[1].s)]) @@ @]
  ELSE calls

\* history: the call the step returned from, with the declared return type of
\* the returning line and whether it gave no expression
ReturnedAfter(m) ==
  IF Len(m.environment) < Len(environment) /\ calls # <<>> /\ Ok(m)
  THEN << [call |-> calls[Len(calls)],
           rtype |-> ReturnTypeFor(tokenized_program, At(ip)),
           bare |-> Tokens[1].s # RETURN_DEF \/ Args = <<>>] >>
  ELSE <<>>

\* history: the frame that made each lambda and the Values bound to the names visible in
\* it then and what they held, by the first line of the lambda's body
VisibleNames(m) == UNION {DOMAIN TopFrame(m)[i] : i \in 1..Len(TopFrame(m))}

MadeAfter(m) ==
  IF Tokens # <<>> /\ Tokens[1].s = LAMBDA_DEF /\ Ok(m) /\ environment # <<>>
  THEN ((ip + 1) :> [depth |-> Len(environment),
                      cells |-> [n \in VisibleNames(Cur) |-> EnvGet(Cur, n)],
                      seen |-> [n \in {x \in VisibleNames(Cur) : EnvGet(Cur, x) # None} |->
                                  values[EnvGet(Cur, n)]]]) @@ made
  ELSE made

\* history: the Values that var has bound, with the keyword of the declaration
DeclaredAfter(m) ==
  IF Tokens # <<>> /\ Tokens[1].s = VAR_DEF /\ Ok(m) /\ Len(Args) >= 2
  THEN [c \in {EnvGet(m, Args[i].s) : i \in 2..Len(Args)} |-> Args[1].s] @@ declared
  ELSE declared

\* the state the handler leaves
Commit(m) ==
  /\ ip' = m.ip
  /\ return_stack' = m.return_stack
  /\ terminate' = m.terminate
  /\ environment' = m.environment
  /\ values' = m.values
  /\ objects' = m.objects
  /\ func_cache' = m.func_cache
  /\ error' = m.error
  /\ output' = m.output
  /\ inp' = m.inp
  /\ executed' = Append(executed, ip)
  /\ calls' = CallsAfter(m)
  /\ returned' = ReturnedAfter(m)
  /\ made' = MadeAfter(m)
  /\ declared' = DeclaredAfter(m)
  /\ UNCHANGED <<tokenized_program, indents, expr, evalres>>

Dispatch(keyword) ==
  /\ Running
  /\ InRange
  /\ Tokens # <<>>
  /\ Tokens[1].s = keyword

BlankLine ==
  /\ Running /\ InRange /\ Tokens = <<>>
  /\ \E m \in {Cur} : \E r \in {_blank_line(m)} : Commit(r)

Assign ==
  /\ Dispatch(ASSIGN_DEF)
  /\ \E m \in {Cur}, args \in {Args} : \E r \in {_assign(m, args)} : Commit(r)

Funccall ==
  /\ Dispatch(FUNCCALL_DEF)
  /\ \E m \in {Cur}, args \in {Args} : \E r \in {_funccall(m, args)} : Commit(r)

Endfunc ==
  /\ Dispatch(ENDFUNC_DEF)
  /\ \E m \in {Cur} : \E r \in {_endfunc(m, None)} : Commit(r)

If ==
  /\ Dispatch(IF_DEF)
  /\ \E m \in {Cur}, args \in {Args} : \E r \in {_if(m, args)} : Commit(r)

Else ==
  /\ Dispatch(ELSE_DEF)
  /\ \E m \in {Cur} : \E r \in {_else(m)} : Commit(r)

Endif ==
  /\ Dispatch(ENDIF_DEF)
  /\ \E m \in {Cur} : \E r \in {_endif(m)} : Commit(r)

Return ==
  /\ Dispatch(RETURN_DEF)
  /\ \E m \in {Cur}, args \in {Args} : \E r \in {_return(m, args)} : Commit(r)

While ==
  /\ Dispatch(WHILE_DEF)
  /\ \E m \in {Cur}, args \in {Args} : \E r \in {_while(m, args)} : Commit(r)

Endwhile ==
  /\ Dispatch(ENDWHILE_DEF)
  /\ \E m \in {Cur} : \E r \in {_endwhile(m)} : Commit(r)

DefineVar ==
  /\ Dispatch(VAR_DEF)
  /\ \E m \in {Cur}, args \in {Args} : \E r \in {_define_var(m, args)} : Commit(r)

Lambda ==
  /\ Dispatch(LAMBDA_DEF)
  /\ \E m \in {Cur}, args \in {Args} : \E r \in {_lambda(m, args)} : Commit(r)

Endlambda ==
  /\ Dispatch(ENDLAMBDA_DEF)
  /\ \E m \in {Cur} : \E r \in {_endlambda(m, None)} : Commit(r)

Statements == {ASSIGN_DEF, FUNCCALL_DEF, ENDFUNC_DEF, IF_DEF, ELSE_DEF, ENDIF_DEF,
               RETURN_DEF, WHILE_DEF, ENDWHILE_DEF, VAR_DEF, LAMBDA_DEF, ENDLAMBDA_DEF}

\* case default: raise Exception('Unknown command')
UnknownCommand ==
  /\ Running /\ InRange /\ Tokens # <<>> /\ Tokens[1].s \notin Statements
  /\ Commit(Raise(Cur, "Exception"))

\* self.tokenized_program[self.ip] past the last line
PastEnd == Running /\ ~InRange /\ Commit(Raise(Cur, "IndexError"))

Next ==
  \/ BlankLine \/ Assign \/ Funccall \/ Endfunc \/ If \/ Else \/ Endif
  \/ Return \/ While \/ Endwhile \/ DefineVar \/ Lambda \/ Endlambda
  \/ UnknownCommand \/ PastEnd

Spec == Init /\ [][Next]_vars

-----------------------------------------------------------------------------
(* The expression evaluator on its own: one expression drawn from a set of  *)
(* well-formed prefix expressions is evaluated in the frame of main.        *)

IntOperands == {-7, 0, 2, 3, 4, 5}

Operands ==
  {N(n) : n \in IntOperands} \cup {W(TRUE_DEF), W(FALSE_DEF)}
    \cup {S(<<"a">>), S(<<"a", "b">>)}

InnerOperands == {N(-7), N(2), N(3), W(TRUE_DEF), S(<<"a">>)}

InnerOperators == {"+", "-", "/", "<", "&"}

OuterOperands == {N(4), N(2), W(FALSE_DEF), S(<<"a">>)}

\* op x y
Simple == {<<W(op), x, y>> : op \in binary_op_list, x \in Operands, y \in Operands}

Inner == {<<W(op), x, y>> : op \in InnerOperators, x \in InnerOperands, y \in InnerOperands}

\* ! x and ! op x y
Negated == {<<W("!"), x>> : x \in Operands} \cup {<<W("!")>> \o e : e \in Inner}

\* op1 op2 x y z and op1 z op2 x y
Nested ==
  {<<W(op)>> \o e \o <<z>> : op \in binary_op_list, e \in Inner, z \in OuterOperands}
    \cup {<<W(op), z>> \o e : op \in binary_op_list, e \in Inner, z \in OuterOperands}

Expressions == {<<x>> : x \in Operands} \cup Simple \cup Negated \cup Nested

InitEval ==
  /\ expr \in Expressions
  /\ evalres = NotEvaluated
  /\ tokenized_program = <<>>
  /\ indents = <<>>
  /\ func_cache = <<>>
  /\ ip = 1
  /\ return_stack = <<>>
  /\ terminate = FALSE
  /\ environment = << <<EmptyMap>> >>
  /\ values = <<>>
  /\ objects = <<EmptyMap>>
  /\ error = "none"
  /\ output = <<>>
  /\ inp = <<>>
  /\ executed = <<>>
  /\ calls = <<>>
  /\ returned = <<>>
  /\ made = <<>>
  /\ declared = <<>>

\* value_type = self._eval_expression(tokens)
Evaluate ==
  /\ evalres = NotEvaluated
  /\ \E m \in {Cur}, tokens \in {expr} : \E r \in {_eval_expression(m, tokens)} :
       /\ evalres' = [error |-> r.m.error,
                      value |-> IF Ok(r.m) THEN r.m.values[r.c] ELSE VoidV]
       /\ values' = r.m.values
       /\ error' = r.m.error
  /\ UNCHANGED <<tokenized_program, indents, ip, return_stack, terminate, environment,
                 objects, func_cache, output, inp, executed, calls, returned, made,
                 declared, expr>>

NextEval == Evaluate

SpecEval == InitEval /\ [][NextEval]_vars

-----------------------------------------------------------------------------
(* The reference evaluation of a prefix expression: recursive descent from  *)
(* the left, the operand written first being the left operand.              *)

RefValue(v) == [kind |-> "value", v |-> v]
RefTypeError == [kind |-> "TYPE_ERROR", v |-> VoidV]
\* a division by zero has no value
RefUndefined == [kind |-> "undefined", v |-> VoidV]

Abs(n) == IF n < 0 THEN -n ELSE n

\* the quotient q with a = q * b + r and r between 0 and b, 0 included
RefFloorDiv(a, b) ==
  CHOOSE q \in (-(Abs(a) + 1))..(Abs(a) + 1) :
    \E r \in (-Abs(b))..Abs(b) :
      /\ a = q * b + r
      /\ IF b > 0 THEN 0 <= r /\ r < b ELSE b < r /\ r <= 0

RefInt(op, a, b) ==
  CASE op = "+" -> RefValue(IntV(a + b))
    [] op = "-" -> RefValue(IntV(a - b))
    [] op = "*" -> RefValue(IntV(a * b))
    [] op = "/" -> IF b = 0 THEN RefUndefined ELSE RefValue(IntV(RefFloorDiv(a, b)))
    [] op = "%" -> IF b = 0 THEN RefUndefined
                   ELSE RefValue(IntV(a - b * RefFloorDiv(a, b)))
    [] op = "==" -> RefValue(BoolV(a = b))
    [] op = "!=" -> RefValue(BoolV(a # b))
    [] op = "<" -> RefValue(BoolV(a < b))
    [] op = "<=" -> RefValue(BoolV(a <= b))
    [] op = ">" -> RefValue(BoolV(b < a))
    [] op = ">=" -> RefValue(BoolV(b <= a))
    [] OTHER -> RefTypeError

RefString(op, a, b) ==
  CASE op = "+" -> RefValue(StrV(a \o b))
    [] op = "==" -> RefValue(BoolV(a = b))
    [] op = "!=" -> RefValue(BoolV(a # b))
    [] op = "<" -> RefValue(BoolV(StrLess(a, b)))
    [] op = "<=" -> RefValue(BoolV(StrLess(a, b) \/ a = b))
    [] op = ">" -> RefValue(BoolV(StrLess(b, a)))
    [] op = ">=" -> RefValue(BoolV(StrLess(b, a) \/ a = b))
    [] OTHER -> RefTypeError

RefBool(op, a, b) ==
  CASE op = "&" -> RefValue(BoolV(a /\ b))
    [] op = "|" -> RefValue(BoolV(a \/ b))
    [] op = "==" -> RefValue(BoolV(a <=> b))
    [] op = "!=" -> RefValue(BoolV(~(a <=> b)))
    [] OTHER -> RefTypeError

RefBinary(op, left, right) ==
  IF left.kind = "undefined" \/ right.kind = "undefined" THEN RefUndefined
  ELSE IF left.kind = "TYPE_ERROR" \/ right.kind = "TYPE_ERROR" THEN RefTypeError
  ELSE IF left.v.t # right.v.t THEN RefTypeError
  ELSE CASE left.v.t = "INT" -> RefInt(op, left.v.n, right.v.n)
         [] left.v.t = "STRING" -> RefString(op, left.v.q, right.v.q)
         [] left.v.t = "BOOL" -> RefBool(op, left.v.b, right.v.b)

RefNot(x) ==
  IF x.kind # "value" THEN x
  ELSE IF x.v.t # "BOOL" THEN RefTypeError
  ELSE RefValue(BoolV(~x.v.b))

RefLiteral(token) ==
  IF token.k = "int" THEN IntV(token.n)
  ELSE IF token.k = "str" THEN StrV(token.q)
  ELSE BoolV(token.s = TRUE_DEF)

\* the value of the expression that starts at tokens[i], and the index after it
RECURSIVE RefParse(_, _)
RefParse(tokens, i) ==
  IF tokens[i].k = "word" /\ tokens[i].s \in binary_op_list THEN
    Bind(RefParse(tokens, i + 1), LAMBDA left :
      Bind(RefParse(tokens, left.next), LAMBDA right :
        [res |-> RefBinary(tokens[i].s, left.res, right.res), next |-> right.next]))
  ELSE IF tokens[i].k = "word" /\ tokens[i].s = "!" THEN
    Bind(RefParse(tokens, i + 1), LAMBDA x : [res |-> RefNot(x.res), next |-> x.next])
  ELSE [res |-> RefValue(RefLiteral(tokens[i])), next |-> i + 1]

RefEval(tokens) == RefParse(tokens, 1).res

-----------------------------------------------------------------------------
(* The call stack and the scope stack *)

C1_Balanced == error = "none" => Len(return_stack) = Len(environment) - 1

Builtins == {W(PRINT_DEF), W(INPUT_DEF), W(STRTOINT_DEF)}

\* the statement at ip is a funccall of a name that is no built-in function
UserCall == Dispatch(FUNCCALL_DEF) /\ Args # <<>> /\ Args[1] \notin Builtins

C1_Pushes ==
  Len(environment') > Len(environment) =>
    /\ UserCall
    /\ Len(environment') = Len(environment) + 1
    /\ return_stack' = Append(return_stack, ip + 1)

C1_Pops ==
  Len(environment') < Len(environment) =>
    /\ Tokens # <<>>
    /\ Tokens[1].s \in {RETURN_DEF, ENDFUNC_DEF, ENDLAMBDA_DEF}
    /\ Len(environment') = Len(environment) - 1

\* C1: between two dispatched statements the return stack has one entry less
\* than the scope stack has frames; a frame is pushed only by a funccall of a
\* name that is no built-in, and popped only by a return, endfunc or endlambda.
C1_CallStackDepth == []C1_Balanced /\ [][C1_Pushes /\ C1_Pops]_vars

\* a recursive call is active
C1_Witness == error = "none" /\ Len(return_stack) >= 2 /\ Len(environment) >= 3

-----------------------------------------------------------------------------
(* Parameters *)

\* C2: after a call returns, the caller's variable given for a reference-kind
\* formal holds the value the callee last assigned to the formal, and the
\* caller's variable given for a plain formal holds the value it had before
\* the call.
C2_ParameterPassing ==
  returned # <<>> =>
    \A i \in 1..Len(returned[1].call.fi.params) :
      returned[1].call.cells[i] # None =>
        IF returned[1].call.fi.params[i].type \in reference_types
        THEN returned[1].call.fi.params[i].name \in DOMAIN returned[1].call.assigned
               => values[returned[1].call.cells[i]]
                    = returned[1].call.assigned[returned[1].call.fi.params[i].name]
        ELSE values[returned[1].call.cells[i]] = returned[1].call.before[i]

-----------------------------------------------------------------------------
(* Lambdas *)

\* the last step was a funccall that entered a lambda, called from the frame
\* that made it
LambdaEntered ==
  /\ error = "none" /\ calls # <<>> /\ Len(environment) >= 2
  /\ calls[Len(calls)].at = Len(executed)
  /\ calls[Len(calls)].fi.start_ip \in DOMAIN made
  /\ made[calls[Len(calls)].fi.start_ip].depth = Len(environment) - 1

\* the names visible where the entered lambda was made, this excepted, and the
\* Values they were bound to
MadeWith == made[calls[Len(calls)].fi.start_ip].cells

CapturedNames == DOMAIN MadeWith \ {"this"}

\* the caller's Value of a name
CallerCell(n) ==
  FrameGet(environment[Len(environment) - 1], Len(environment[Len(environment) - 1]), n)

SameValue(x, y) ==
  /\ x.t = y.t /\ x.n = y.n /\ x.b = y.b /\ x.q = y.q
  /\ x.fi.start_ip = y.fi.start_ip

\* inside the invocation the name reads what the caller's variable holds now
ReadsCallersValue(n) ==
  (CallerCell(n) # None /\ EnvGet(Cur, n) # None)
    => SameValue(values[EnvGet(Cur, n)], values[CallerCell(n)])

\* C3, as claimed: inside the invocation every captured variable reads the
\* value it has at the moment of the call.
C3_ReadsValueAtCall ==
  LambdaEntered =>
    \A n \in CapturedNames : ReadsCallersValue(n)

\* C3, amended: inside the invocation a captured variable reads the value it
\* has at the moment of the call, provided its name is still bound to the
\* Value it was bound to when the lambda was made; a result variable that a
\* return has bound again since then is not.
C3_ReadsValueAtCallIfStillBound ==
  LambdaEntered =>
    \A n \in CapturedNames :
      CallerCell(n) = MadeWith[n] => ReadsCallersValue(n)

\* a lambda is entered and reads a value that differs from the one the
\* variable had when the lambda was made
C3_Witness ==
  /\ LambdaEntered
  /\ \E n \in CapturedNames :
       /\ n \in DOMAIN made[calls[Len(calls)].fi.start_ip].seen
       /\ CallerCell(n) # None /\ CallerCell(n) = MadeWith[n] /\ EnvGet(Cur, n) # None
       /\ ~SameValue(values[EnvGet(Cur, n)],
                     made[calls[Len(calls)].fi.start_ip].seen[n])

-----------------------------------------------------------------------------
(* Block scopes *)

\* the depths of the bodies open before line i: a header of a function or
\* lambda opens a body of depth 0, if and while add a block, endif and
\* endwhile close one
RECURSIVE DepthStack(_, _, _)
DepthStack(i, last, stack) ==
  IF i > last THEN stack
  ELSE Bind(IF tokenized_program[i] = <<>> THEN stack
            ELSE IF tokenized_program[i][1].s \in {FUNC_DEF, LAMBDA_DEF}
                 THEN Append(stack, 0)
            ELSE IF stack = <<>> THEN stack
            ELSE IF tokenized_program[i][1].s \in {ENDFUNC_DEF, ENDLAMBDA_DEF}
                 THEN SubSeq(stack, 1, Len(stack) - 1)
            ELSE IF tokenized_program[i][1].s \in {IF_DEF, WHILE_DEF}
                 THEN [stack EXCEPT ![Len(stack)] = @ + 1]
            ELSE IF tokenized_program[i][1].s \in {ENDIF_DEF, ENDWHILE_DEF}
                 THEN [stack EXCEPT ![Len(stack)] = @ - 1]
            ELSE stack,
            LAMBDA stack2 : DepthStack(i + 1, last, stack2))

\* the number of if, else and while bodies that enclose line i in its function
LexDepth(i) ==
  Bind(DepthStack(1, i - 1, <<>>), LAMBDA stack :
    IF stack = <<>> THEN 0 ELSE stack[Len(stack)])

\* C4: at every statement the number of block scopes open in the frame on top
\* is the number of if, else and while bodies that enclose the statement in
\* its function.
C4_BlockScopes ==
  (error = "none" /\ ~terminate /\ ip \in 1..ProgLen /\ environment # <<>>)
    => Len(TopFrame(Cur)) = 1 + LexDepth(ip)

\* an if body inside a while body is being executed
C4_Witness == error = "none" /\ environment # <<>> /\ Len(TopFrame(Cur)) = 3

-----------------------------------------------------------------------------
(* while *)

IsEndwhileOf(i, j) ==
  Line(j) # <<>> /\ Line(j)[1].s = ENDWHILE_DEF /\ Indent(j) = Indent(i)

\* the first endwhile after line i with the indentation of line i
MatchingEndwhile(i) ==
  CHOOSE j \in (i + 1)..ProgLen :
    IsEndwhileOf(i, j) /\ \A k \in (i + 1)..(j - 1) : ~IsEndwhileOf(i, k)

ConditionIsFalse ==
  \E r \in {_eval_expression(Cur, Args)} : Ok(r.m) /\ r.m.values[r.c] = BoolV(FALSE)

\* C5: a while whose condition is false moves the pointer to the statement
\* after the matching endwhile and leaves the scopes as they are.
C5_FalseWhileExits ==
  [][(Dispatch(WHILE_DEF) /\ ConditionIsFalse)
       => /\ error' = "none"
          /\ ip' = MatchingEndwhile(ip) + 1
          /\ environment' = environment]_vars

-----------------------------------------------------------------------------
(* Results *)

ResultName(typename) == RESULT_DEF \o type_to_result(compatible_types(typename))

HoldsDefault(typename, c) ==
  /\ c # None
  /\ CASE typename = INT_DEF -> values[c] = IntV(0)
       [] typename = BOOL_DEF -> values[c] = BoolV(FALSE)
       [] typename = STRING_DEF -> values[c] = StrV(<<>>)
       [] typename = OBJECT_DEF ->
            values[c].t = "OBJECT" /\ objects[values[c].d] = EmptyMap

\* C6: after a function or lambda declared int, bool, string or object has
\* returned without an expression, the caller's result variable of that type
\* holds 0, False, the empty string or an Object without fields.
C6_DefaultReturn ==
  (returned # <<>> /\ returned[1].bare
     /\ returned[1].rtype \in {INT_DEF, BOOL_DEF, STRING_DEF, OBJECT_DEF})
    => HoldsDefault(returned[1].rtype, EnvGet(Cur, ResultName(returned[1].rtype)))

\* C10: after a function or lambda with a declared return type has returned,
\* the result variable the caller reads is bound in the outermost block scope
\* of the caller's frame.
C10_ResultInOutermostScope ==
  (returned # <<>>
     /\ returned[1].rtype \in {INT_DEF, BOOL_DEF, STRING_DEF, OBJECT_DEF, FUNC_DEF})
    => /\ ResultName(returned[1].rtype) \in DOMAIN TopFrame(Cur)[1]
       /\ TopFrame(Cur)[1][ResultName(returned[1].rtype)] # None
       /\ EnvGet(Cur, ResultName(returned[1].rtype))
            = TopFrame(Cur)[1][ResultName(returned[1].rtype)]

-----------------------------------------------------------------------------
(* Calls that end in an error *)

Callee == TokenName(Args[1])

Actuals == Rest(Args)

UnknownCallee == Callee \notin DOMAIN func_cache

WrongCount == ~UnknownCallee /\ Len(func_cache[Callee].params) # Len(Actuals)

\* the error of resolving an actual, "none" if it resolves
ResolveError(token) ==
  IF token.k \in {"int", "str"} THEN "none"
  ELSE IF token.k = "dot" THEN _get_value(Cur, token).m.error
  ELSE IF token.s \in {TRUE_DEF, FALSE_DEF} THEN "none"
  ELSE IF EnvGet(Cur, token.s) # None \/ token.s \in DOMAIN func_cache THEN "none"
  ELSE "NAME_ERROR"

\* the runtime type of an actual that resolves
ActualType(token) ==
  IF token.k = "int" THEN "INT"
  ELSE IF token.k = "str" THEN "STRING"
  ELSE IF token.k = "dot" THEN values[_get_value(Cur, token).c].t
  ELSE IF token.s \in {TRUE_DEF, FALSE_DEF} THEN "BOOL"
  ELSE IF EnvGet(Cur, token.s) # None THEN values[EnvGet(Cur, token.s)].t
  ELSE "FUNC"

TypeMismatch(i) ==
  /\ ResolveError(Actuals[i]) = "none"
  /\ func_cache[Callee].params[i].type \in CompatibleKeywords
  /\ ActualType(Actuals[i]) # compatible_types(func_cache[Callee].params[i].type)

\* the error the i-th parameter ends the call with, "none" if it is bound
ParamError(i) ==
  IF ResolveError(Actuals[i]) # "none" THEN ResolveError(Actuals[i])
  ELSE IF func_cache[Callee].params[i].type \notin CompatibleKeywords THEN "KeyError"
  ELSE IF TypeMismatch(i) THEN "TYPE_ERROR"
  ELSE "none"

RECURSIVE FirstParamError(_)
FirstParamError(i) ==
  IF i > Len(Actuals) THEN "none"
  ELSE IF ParamError(i) # "none" THEN ParamError(i)
  ELSE FirstParamError(i + 1)

ExpectedCallError ==
  IF UnknownCallee \/ WrongCount THEN "NAME_ERROR" ELSE FirstParamError(1)

\* the call ends in an error and nothing of the callee is entered
EndsInError(kind) ==
  /\ error' = kind
  /\ ip' = ip /\ environment' = environment /\ terminate' = terminate
  /\ executed' = Append(executed, ip)

EntersCallee ==
  /\ error' = "none"
  /\ Len(environment') = Len(environment) + 1
  /\ ip' = func_cache[Callee].start_ip

\* C7, as claimed: a funccall of a name that is no built-in ends in NAME_ERROR
\* when the name is unknown or the number of actuals is wrong, in TYPE_ERROR
\* when some actual has not the type of its formal, and enters the callee in
\* every other case.
C7_CallErrors ==
  [][UserCall =>
       IF UnknownCallee \/ WrongCount THEN EndsInError("NAME_ERROR")
       ELSE IF \E i \in 1..Len(Actuals) : TypeMismatch(i) THEN EndsInError("TYPE_ERROR")
       ELSE EntersCallee]_vars

\* C7, amended: the name is unknown or the number of actuals is wrong
\* (NAME_ERROR), or else the first parameter, in the order of the declaration,
\* that cannot be bound decides: its actual does not resolve (the error of
\* reading it, NAME_ERROR for an undeclared name), its formal's keyword is no
\* parameter type (KeyError), or its actual has not the formal's type
\* (TYPE_ERROR); in every other case the callee is entered.
C7_CallErrorsWithUnresolvedActuals ==
  [][UserCall =>
       IF ExpectedCallError # "none" THEN EndsInError(ExpectedCallError)
       ELSE EntersCallee]_vars

\* a call of a declared function with the right number of actuals has ended
\* in NAME_ERROR
C7_Witness ==
  /\ error = "NAME_ERROR" /\ executed # <<>>
  /\ Line(executed[Len(executed)])[1].s = FUNCCALL_DEF
  /\ Len(Line(executed[Len(executed)])) >= 2
  /\ TokenName(Line(executed[Len(executed)])[2]) \in DOMAIN func_cache
  /\ Len(func_cache[TokenName(Line(executed[Len(executed)])[2])].params)
       = Len(Line(executed[Len(executed)])) - 2

-----------------------------------------------------------------------------
(* The evaluator against the reference evaluation *)

\* C8: _eval_expression gives the value of the reference evaluation, and
\* TYPE_ERROR where the reference evaluation applies an operator to operands
\* of two types or to a type that does not register it.
C8_PrefixEvaluation ==
  (evalres # NotEvaluated /\ RefEval(expr).kind # "undefined")
    => IF RefEval(expr).kind = "TYPE_ERROR"
       THEN evalres.error = "TYPE_ERROR"
       ELSE evalres = [error |-> "none", value |-> RefEval(expr).v]

\* / -7 2 has been evaluated to -4
C8_Witness ==
  /\ expr = <<W("/"), N(-7), N(2)>>
  /\ evalres = [error |-> "none", value |-> IntV(-4)]

-----------------------------------------------------------------------------
(* Termination *)

ReturnsFromMain ==
  (Dispatch(RETURN_DEF) \/ Dispatch(ENDFUNC_DEF)) /\ return_stack = <<>>

\* C9: a return or endfunc executed with an empty return stack sets the
\* termination flag and pops no frame; the flag is set by no other step and
\* is never cleared.
C9_ReturnInMainTerminates ==
  [][/\ ReturnsFromMain
          => terminate' /\ environment' = environment /\ error' = "none"
     /\ (~terminate /\ terminate') => ReturnsFromMain
     /\ terminate => terminate']_vars

-----------------------------------------------------------------------------
(* Returns of the wrong type *)

DeclaredReturnType == ReturnTypeFor(tokenized_program, At(ip))

\* the return at ip gives an expression in a function or lambda declared void
ReturnsValueFromVoid ==
  Dispatch(RETURN_DEF) /\ DeclaredReturnType = VOID_DEF /\ Args # <<>>

\* the return at ip gives an expression that evaluates to another type than
\* the declared one
ReturnsOtherType ==
  /\ Dispatch(RETURN_DEF) /\ Args # <<>>
  /\ DeclaredReturnType \in TypeKeywords \ {VOID_DEF}
  /\ \E r \in {_eval_expression(Cur, Args)} :
       /\ Ok(r.m)
       /\ r.m.values[r.c].t # type_to_default(DeclaredReturnType).t

\* no frame is popped, no binding and no Value of the run is changed
NothingReturned ==
  /\ environment' = environment
  /\ return_stack' = return_stack
  /\ ip' = ip
  /\ \A c \in 1..Len(values) : values'[c] = values[c]

\* C11: a return with an expression in a function or lambda declared void,
\* and a return whose expression has another type than the declared return
\* type, end in TYPE_ERROR; the frame is not popped and the caller's result
\* variable is not written.
C11_ReturnTypeErrors ==
  [][(ReturnsValueFromVoid \/ ReturnsOtherType)
       => (error' = "TYPE_ERROR" /\ NothingReturned)]_vars

\* a return inside a call has ended in TYPE_ERROR because of its type
C11_Witness ==
  /\ error = "TYPE_ERROR" /\ executed # <<>> /\ Len(environment) >= 2
  /\ Line(executed[Len(executed)])[1].s = RETURN_DEF
  /\ Len(Line(executed[Len(executed)])) >= 2
  /\ ReturnTypeFor(tokenized_program, executed[Len(executed)]) # VOID_DEF

-----------------------------------------------------------------------------
(* The type of a declared variable *)

\* C12: in every state each Value that a var statement declared with type
\* keyword T holds a value of T's runtime type, whatever was assigned since.
C12_DeclaredTypeKept ==
  \A c \in DOMAIN declared : values[c].t = type_to_default(declared[c]).t

-----------------------------------------------------------------------------
(* Declarations *)

ValueKeywords == {INT_DEF, BOOL_DEF, STRING_DEF}

\* what reading the Value c gives in machine m: its tag and payload, and for an
\* Object the values of its fields
Reading(m, c) ==
  IF m.values[c].t = "OBJECT"
  THEN [f \in DOMAIN m.objects[m.values[c].d] |->
          m.values[m.objects[m.values[c].d][f]]]
  ELSE m.values[c]

\* a var statement of a value type binds every name to a Value of its own that
\* holds the default
DeclaresFreshDefaults ==
  (Dispatch(VAR_DEF) /\ error' = "none" /\ Len(Args) >= 2
     /\ Args[1].s \in ValueKeywords)
    => \A i \in 2..Len(Args) :
         /\ EnvGet(Cur', Args[i].s) \notin 1..Len(values)
         /\ values'[EnvGet(Cur', Args[i].s)] = type_to_default(Args[1].s)
         /\ \A j \in 2..Len(Args) :
              Args[j].s # Args[i].s
                => EnvGet(Cur', Args[j].s) # EnvGet(Cur', Args[i].s)

\* the step assigns to a declared variable, or to a field of one
AssignsToDeclared ==
  /\ Dispatch(ASSIGN_DEF) /\ error' = "none" /\ Args # <<>>
  /\ EnvGet(Cur, Args[1].s) \in DOMAIN declared

\* C13, as claimed: a variable declared int, bool or string reads the default
\* of its type before any assignment, and an assignment to a declared variable,
\* or to a field of a declared object, changes the value read from no other
\* declared variable.
C13_FreshCells ==
  [][/\ DeclaresFreshDefaults
     /\ AssignsToDeclared
          => \A c \in DOMAIN declared \ {EnvGet(Cur, Args[1].s)} :
               Reading(Cur', c) = Reading(Cur, c)]_vars

\* C13, amended: a variable declared int, bool or string reads the default of
\* its type before any assignment, and an assignment to a declared variable,
\* or to a field of a declared object, changes the value read from no other
\* variable declared int, bool or string.
C13_FreshValueCells ==
  [][/\ DeclaresFreshDefaults
     /\ AssignsToDeclared
          => \A c \in DOMAIN declared \ {EnvGet(Cur, Args[1].s)} :
               declared[c] \in ValueKeywords => values'[c] = values[c]]_vars

\* an assignment has given a declared int a value that another declared int
\* does not hold
C13_Witness ==
  /\ error = "none" /\ executed # <<>>
  /\ Line(executed[Len(executed)])[1].s = ASSIGN_DEF
  /\ \E c1, c2 \in DOMAIN declared :
       /\ declared[c1] = INT_DEF /\ declared[c2] = INT_DEF
       /\ values[c1].n # 0 /\ values[c2] = IntV(0)

-----------------------------------------------------------------------------
(* The scans for a terminator *)

IsCloser(i, k, closers) ==
  Line(k) # <<>> /\ Line(k)[1].s \in closers /\ Indent(k) = Indent(i)

\* after line i a line with tokens and less indentation comes before any
\* closer with the indentation of line i
DedentAhead(i, closers) ==
  \E j \in (i + 1)..ProgLen :
    /\ Line(j) # <<>> /\ Indent(j) < Indent(i)
    /\ \A k \in (i + 1)..(j - 1) : ~IsCloser(i, k, closers)

\* the same before line i, going back
DedentBehind(i, closers) ==
  \E j \in 1..(i - 1) :
    /\ Line(j) # <<>> /\ Indent(j) < Indent(i)
    /\ \A k \in (j + 1)..(i - 1) : ~IsCloser(i, k, closers)

\* the statement at ip scans for its terminator and the scan meets a dedented
\* line first
ScanMeetsDedent ==
  \/ Dispatch(IF_DEF) /\ ConditionIsFalse /\ DedentAhead(ip, {ELSE_DEF, ENDIF_DEF})
  \/ Dispatch(ELSE_DEF) /\ DedentAhead(ip, {ENDIF_DEF})
  \/ Dispatch(WHILE_DEF) /\ ConditionIsFalse /\ DedentAhead(ip, {ENDWHILE_DEF})
  \/ Dispatch(LAMBDA_DEF) /\ DedentAhead(ip, {ENDLAMBDA_DEF})
  \/ Dispatch(ENDWHILE_DEF) /\ DedentBehind(ip, {WHILE_DEF})

\* C14: a scan for a block terminator that meets a line with tokens and less
\* indentation than the opener, before a terminator of the opener's
\* indentation, ends in SYNTAX_ERROR and matches no terminator beyond that line.
C14_DedentEndsScan ==
  [][ScanMeetsDedent => (error' = "SYNTAX_ERROR" /\ ip' = ip)]_vars

-----------------------------------------------------------------------------
(* Blank lines in the range of a scan *)

\* the first closer of line i after it, and before it
CloserAhead(i, closers) ==
  {j \in (i + 1)..ProgLen :
     IsCloser(i, j, closers) /\ \A k \in (i + 1)..(j - 1) : ~IsCloser(i, k, closers)}

CloserBehind(i, closers) ==
  {j \in 1..(i - 1) :
     IsCloser(i, j, closers) /\ \A k \in (j + 1)..(i - 1) : ~IsCloser(i, k, closers)}

\* the first endfunc or endlambda after line i
IsEnd(k) == Line(k) # <<>> /\ Line(k)[1].s \in {ENDFUNC_DEF, ENDLAMBDA_DEF}

EndAhead(i) ==
  {j \in (i + 1)..ProgLen : IsEnd(j) /\ \A k \in (i + 1)..(j - 1) : ~IsEnd(k)}

BlankBetween(i, j) == \E k \in (i + 1)..(j - 1) : Line(k) = <<>>

\* the return at ip is inside a call and has a value of the declared type, or
\* none
ReturnsWell ==
  /\ Dispatch(RETURN_DEF) /\ return_stack # <<>>
  /\ DeclaredReturnType \in TypeKeywords
  /\ ~ReturnsValueFromVoid /\ ~ReturnsOtherType
  /\ Args # <<>> => Ok(_eval_expression(Cur, Args).m)

\* C15: a false while, an endwhile, a lambda literal and a return reach their
\* target, without a failure, when blank lines lie between the statement and
\* the terminator its scan looks for.
C15_BlankLinesSkipped ==
  [][/\ (Dispatch(WHILE_DEF) /\ ConditionIsFalse /\ ~DedentAhead(ip, {ENDWHILE_DEF}))
          => \A j \in CloserAhead(ip, {ENDWHILE_DEF}) :
               BlankBetween(ip, j) => (error' = "none" /\ ip' = j + 1)
     /\ (Dispatch(ENDWHILE_DEF) /\ ~DedentBehind(ip, {WHILE_DEF}))
          => \A j \in CloserBehind(ip, {WHILE_DEF}) :
               BlankBetween(j, ip) => (error' = "none" /\ ip' = j)
     /\ (Dispatch(LAMBDA_DEF) /\ ~DedentAhead(ip, {ENDLAMBDA_DEF}))
          => \A j \in CloserAhead(ip, {ENDLAMBDA_DEF}) :
               BlankBetween(ip, j) => (error' = "none" /\ ip' = j + 1)
     /\ ReturnsWell
          => \A j \in EndAhead(ip) :
               BlankBetween(ip, j)
                 => (error' = "none" /\ ip' = return_stack[Len(return_stack)])]_vars

-----------------------------------------------------------------------------
(* The branches of an if *)

ConditionIsTrue ==
  \E r \in {_eval_expression(Cur, Args)} : Ok(r.m) /\ r.m.values[r.c] = BoolV(TRUE)

ConditionIsNoBool ==
  \E r \in {_eval_expression(Cur, Args)} : Ok(r.m) /\ r.m.values[r.c].t # "BOOL"

\* the first closer of line i's indentation after it, in the block of line i
Matching(i, closers) ==
  IF DedentAhead(i, closers) THEN {} ELSE CloserAhead(i, closers)

\* the frames with one more scope on the frame on top, and with one less
ScopeOpened == [environment EXCEPT ![Len(environment)] = Append(@, EmptyMap)]

ScopeClosed ==
  [environment EXCEPT ![Len(environment)] = SubSeq(@, 1, Len(@) - 1)]

\* C16: an if with a true condition goes on with its next statement in a new
\* scope, and the else that ends this branch closes the scope and goes on
\* after the matching endif; an if with a false condition goes on after the
\* matching else of its indentation, in a new scope, or after the matching
\* endif when no else comes first, in no new scope; an if whose condition is
\* no Bool ends in TYPE_ERROR.
C16_IfTakesOneBranch ==
  [][/\ (Dispatch(IF_DEF) /\ ConditionIsTrue)
          => (error' = "none" /\ ip' = ip + 1 /\ environment' = ScopeOpened)
     /\ Dispatch(ELSE_DEF)
          => \A j \in Matching(ip, {ENDIF_DEF}) :
               error' = "none" /\ ip' = j + 1 /\ environment' = ScopeClosed
     /\ (Dispatch(IF_DEF) /\ ConditionIsFalse)
          => \A j \in Matching(ip, {ELSE_DEF, ENDIF_DEF}) :
               /\ error' = "none" /\ ip' = j + 1
               /\ environment' = IF Line(j)[1].s = ELSE_DEF THEN ScopeOpened
                                                              ELSE environment
     /\ (Dispatch(IF_DEF) /\ ConditionIsNoBool)
          => (error' = "TYPE_ERROR" /\ ip' = ip /\ environment' = environment)]_vars

\* an if with a false condition has gone on after its else, over an empty line
C16_Witness ==
  /\ error = "none" /\ executed # <<>>
  /\ executed[Len(executed)] \in 1..ProgLen
  /\ Line(executed[Len(executed)]) # <<>>
  /\ Line(executed[Len(executed)])[1].s = IF_DEF
  /\ ip - 1 \in Matching(executed[Len(executed)], {ELSE_DEF, ENDIF_DEF})
  /\ Line(ip - 1)[1].s = ELSE_DEF
  /\ BlankBetween(executed[Len(executed)], ip - 1)

-----------------------------------------------------------------------------
(* The lambda literal *)

\* the Func result variable of the frame on top is bound, in the frame's
\* outermost scope, to a Func value for the body that starts at line
FuncResultBound(m, line) ==
  /\ ResultName(FUNC_DEF) \in DOMAIN TopFrame(m)[1]
  /\ TopFrame(m)[1][ResultName(FUNC_DEF)] # None
  /\ EnvGet(m, ResultName(FUNC_DEF)) = TopFrame(m)[1][ResultName(FUNC_DEF)]
  /\ m.values[EnvGet(m, ResultName(FUNC_DEF))].t = "FUNC"
  /\ m.values[EnvGet(m, ResultName(FUNC_DEF))].fi.start_ip = line

LambdaHeader == Dispatch(LAMBDA_DEF) /\ Args # <<>> /\ ~DedentAhead(ip, {ENDLAMBDA_DEF})

\* the lambda literal is passed without a failure: the next statement is the
\* one after its endlambda, the frames and the return stack are as before
PassesLambda(j) ==
  /\ error' = "none" /\ ip' = j + 1
  /\ executed' = Append(executed, ip)
  /\ Len(environment') = Len(environment)
  /\ return_stack' = return_stack

\* C17: a lambda header that is dispatched executes no statement of its body:
\* the Func value is bound to the Func result variable in the outermost scope
\* of the frame on top, the number of frames and the return stack stay as they
\* are, and the next statement is the one after the endlambda of the header's
\* indentation.
C17_LambdaHeaderSkipsBody ==
  [][LambdaHeader
       => \A j \in CloserAhead(ip, {ENDLAMBDA_DEF}) :
            PassesLambda(j) /\ FuncResultBound(Cur', ip + 1)]_vars

-----------------------------------------------------------------------------
(* Expressions that are not well-formed *)

IsBinaryOperator(token) == token.k = "word" /\ token.s \in binary_op_list

IsNotOperator(token) == token.k = "word" /\ token.s = "!"

\* the number of values left when tokens[1..i] are taken from the right with n
\* values at hand, -1 when an operator finds too few
RECURSIVE ValuesLeft(_, _, _)
ValuesLeft(tokens, i, n) ==
  IF i = 0 THEN n
  ELSE IF IsBinaryOperator(tokens[i])
       THEN IF n < 2 THEN -1 ELSE ValuesLeft(tokens, i - 1, n - 1)
  ELSE IF IsNotOperator(tokens[i])
       THEN IF n < 1 THEN -1 ELSE ValuesLeft(tokens, i - 1, n)
  ELSE ValuesLeft(tokens, i - 1, n + 1)

IllFormed(tokens) == ValuesLeft(tokens, Len(tokens), 0) # 1

OperandsResolve(tokens) ==
  \A i \in 1..Len(tokens) :
    (IsBinaryOperator(tokens[i]) \/ IsNotOperator(tokens[i]))
      \/ ResolveError(tokens[i]) = "none"

\* "!" in front of a well-formed expression that has a value of another type
\* than Bool
NotOfNoBool(tokens) ==
  /\ Len(tokens) >= 2 /\ IsNotOperator(tokens[1]) /\ ~IllFormed(Tail(tokens))
  /\ \E r \in {_eval_expression(Cur, Tail(tokens))} :
       Ok(r.m) /\ r.m.values[r.c].t # "BOOL"

\* the assignment at ip evaluates its expression, whose operands resolve
EvaluatesExpression ==
  /\ Dispatch(ASSIGN_DEF) /\ Len(Args) >= 2
  /\ OperandsResolve(Tail(Args))

\* C18: the evaluation of a token sequence whose operands resolve ends with a
\* value or with a diagnosed error; a sequence that does not reduce to one
\* value, with too many operands or an operator with too few operands, ends
\* in SYNTAX_ERROR, and "!" of an operand that is no Bool ends in TYPE_ERROR.
C18_EvaluationIsDiagnosed ==
  [][EvaluatesExpression
       => /\ error' \in {"none", "SYNTAX_ERROR", "TYPE_ERROR", "NAME_ERROR"}
          /\ IllFormed(Tail(Args)) => error' = "SYNTAX_ERROR"
          /\ NotOfNoBool(Tail(Args)) => error' = "TYPE_ERROR"]_vars

-----------------------------------------------------------------------------
(* Reading a field *)

\* the statement at ip reads the dotted token tok, as the argument of print or
\* as the expression of an assignment, and the variable before the dot holds a
\* Value
PrintsField ==
  /\ Dispatch(FUNCCALL_DEF) /\ Len(Args) = 2 /\ TokenName(Args[1]) = PRINT_DEF
  /\ Args[2].k = "dot" /\ EnvGet(Cur, Args[2].s) # None

AssignsField ==
  /\ Dispatch(ASSIGN_DEF) /\ Len(Args) = 2 /\ Args[1].k = "word"
  /\ EnvGet(Cur, Args[1].s) # None
  /\ Args[2].k = "dot" /\ EnvGet(Cur, Args[2].s) # None

HoldsObject(tok) == values[EnvGet(Cur, tok.s)].t = "OBJECT"

FieldsOf(tok) == objects[values[EnvGet(Cur, tok.s)].d]

\* what reading tok ends in when it does not give the field's value
ReadError(tok) ==
  IF ~HoldsObject(tok) THEN "TYPE_ERROR"
  ELSE IF tok.f \notin DOMAIN FieldsOf(tok) THEN "NAME_ERROR"
  ELSE "none"

\* C19: reading o.f gives the value field f holds when o holds an Object that
\* has the field; it ends in TYPE_ERROR when o holds a value that is no
\* Object, and in NAME_ERROR when o holds an Object without the field.
C19_DottedRead ==
  [][/\ PrintsField
          => IF ReadError(Args[2]) # "none" THEN error' = ReadError(Args[2])
             ELSE /\ error' = "none"
                  /\ output' = Append(output, PyStr(values[FieldsOf(Args[2])[Args[2].f]]))
     /\ AssignsField
          => IF ReadError(Args[2]) # "none" THEN error' = ReadError(Args[2])
             ELSE values[FieldsOf(Args[2])[Args[2].f]].t = values[EnvGet(Cur, Args[1].s)].t
                    => /\ error' = "none"
                       /\ values'[EnvGet(Cur, Args[1].s)]
                            = values[FieldsOf(Args[2])[Args[2].f]]]_vars

-----------------------------------------------------------------------------
(* The aliases of an Object *)

\* the Value c of machine m holds the Object whose fields are the dict d
HoldsObjectOf(m, c, d) == c # None /\ m.values[c].t = "OBJECT" /\ m.values[c].d = d

ObjectOf(name) == values[EnvGet(Cur, name)].d

IsObject(name) == EnvGet(Cur, name) # None /\ values[EnvGet(Cur, name)].t = "OBJECT"

\* the call of a method through the variable o enters the callee with this
\* bound to the Object of o
QualifiedCallBindsThis ==
  (Dispatch(FUNCCALL_DEF) /\ Args # <<>> /\ Args[1].k = "dot" /\ IsObject(Args[1].s)
     /\ error' = "none")
    => HoldsObjectOf(Cur', EnvGet(Cur', THIS_DEF), ObjectOf(Args[1].s))

\* the call of a function binds a formal of type object to the Object of its
\* actual
ObjectParameterIsAlias ==
  (UserCall /\ error' = "none")
    => \A i \in 1..Len(Actuals) :
         (func_cache[Callee].params[i].type = OBJECT_DEF /\ Actuals[i].k = "word")
           => HoldsObjectOf(Cur', EnvGet(Cur', func_cache[Callee].params[i].name),
                            ObjectOf(Actuals[i].s))

\* the assignment of an object variable to another one makes the target hold
\* the Object of the source
AssignmentMakesAlias ==
  (Dispatch(ASSIGN_DEF) /\ Len(Args) = 2 /\ Args[1].k = "word" /\ Args[2].k = "word"
     /\ IsObject(Args[1].s) /\ IsObject(Args[2].s) /\ error' = "none")
    => HoldsObjectOf(Cur', EnvGet(Cur, Args[1].s), ObjectOf(Args[2].s))

\* the assignment of a field through one Value of an Object is read through
\* every Value that holds this Object
FieldAssignmentIsShared ==
  (Dispatch(ASSIGN_DEF) /\ Len(Args) >= 2 /\ Args[1].k = "dot" /\ IsObject(Args[1].s)
     /\ error' = "none")
    => \A c \in 1..Len(values) :
         HoldsObjectOf(Cur, c, ObjectOf(Args[1].s))
           => /\ values'[c].t = "OBJECT"
              /\ Args[1].f \in DOMAIN objects'[values'[c].d]
              /\ \E r \in {_eval_expression(Cur, Tail(Args))} :
                   values'[objects'[values'[c].d][Args[1].f]] = r.m.values[r.c]

\* C20: a call o.m binds this to the Object the caller's o holds, an object
\* parameter and a variable assigned from an object variable hold the Object
\* of their source, and a field assigned through any of them is read with the
\* assigned value through every Value that holds the same Object, in the
\* caller after the return too.
C20_AliasesShareFields ==
  [][/\ QualifiedCallBindsThis
     /\ ObjectParameterIsAlias
     /\ AssignmentMakesAlias
     /\ FieldAssignmentIsShared]_vars

-----------------------------------------------------------------------------
(* Assignment from a variable *)

ValueTypes == {"INT", "BOOL", "STRING"}

\* the Value that reading the token gives in machine m: the Value bound to a
\* name, or the Value a field holds
CellOf(m, tok) ==
  IF tok.k = "dot" THEN m.objects[m.values[EnvGet(m, tok.s)].d][tok.f]
  ELSE EnvGet(m, tok.s)

\* the assignment at ip has one variable that holds an Int, a Bool or a String
\* as its expression, its target is another variable or a field, and it ends
\* without an error
AssignsFromVariable ==
  /\ Dispatch(ASSIGN_DEF) /\ Len(Args) = 2 /\ error' = "none"
  /\ Args[2].k = "word" /\ Args[2].s \notin {TRUE_DEF, FALSE_DEF}
  /\ EnvGet(Cur, Args[2].s) # None
  /\ values[EnvGet(Cur, Args[2].s)].t \in ValueTypes
  /\ Args[1].k = "word" => EnvGet(Cur, Args[1].s) # EnvGet(Cur, Args[2].s)

\* C21: after an assignment of a variable b that holds an Int, a Bool or a
\* String to a variable a or to a field o.f, the target reads the value of b
\* from a Value of its own, not from the Value of b, so that a later
\* assignment to b does not change what a or o.f reads.
C21_AssignmentCopiesValue ==
  [][AssignsFromVariable
       => /\ CellOf(Cur', Args[1]) # CellOf(Cur', Args[2])
          /\ values'[CellOf(Cur', Args[1])] = values[CellOf(Cur, Args[2])]]_vars

-----------------------------------------------------------------------------
(* A formal with the name of a captured variable *)

\* the scopes of the captures of fi that hold the name
CapturingScopes(fi, name) == {j \in 1..Len(fi.captures) : name \in DOMAIN fi.captures[j]}

IsCaptured(fi, name) == CapturingScopes(fi, name) # {}

\* the captured Value of the name, the one of the innermost scope
CapturedValue(fi, name) ==
  fi.captures[CHOOSE j \in CapturingScopes(fi, name) :
                \A k \in CapturingScopes(fi, name) : k <= j][name]

\* the new frame binds the name to a new Value that holds what the captured
\* Value holds
BoundToCopyOfCapture(fi, name) ==
  /\ EnvGet(Cur', name) # None
  /\ EnvGet(Cur', name) \notin 1..Len(values)
  /\ values'[EnvGet(Cur', name)].t = values[CapturedValue(fi, name)].t
  /\ values[CapturedValue(fi, name)].t \in ValueTypes
       => values'[EnvGet(Cur', name)] = values[CapturedValue(fi, name)]

\* C22: a call of a lambda that has a formal with the name of one of its
\* captured variables binds this name, in the new frame, to a copy of the
\* captured value and not to the Value of the actual, also for a formal of a
\* reference kind.
C22_CaptureOverridesFormal ==
  [][(UserCall /\ error' = "none" /\ ~UnknownCallee)
       => \A i \in 1..Len(Actuals) :
            (IsCaptured(func_cache[Callee], func_cache[Callee].params[i].name)
               /\ func_cache[Callee].params[i].name # THIS_DEF)
              => /\ BoundToCopyOfCapture(func_cache[Callee],
                                         func_cache[Callee].params[i].name)
                 /\ ResolveError(Actuals[i]) = "none"
                      => EnvGet(Cur', func_cache[Callee].params[i].name)
                           # _get_value(Cur, Actuals[i]).c]_vars

\* a lambda has been entered whose reference formal has the name of a
\* captured variable and is not bound to the Value of the actual
C22_Witness ==
  /\ LambdaEntered
  /\ \E i \in 1..Len(calls[Len(calls)].fi.params) :
       /\ calls[Len(calls)].fi.params[i].type \in reference_types
       /\ IsCaptured(calls[Len(calls)].fi, calls[Len(calls)].fi.params[i].name)
       /\ calls[Len(calls)].cells[i] # None
       /\ EnvGet(Cur, calls[Len(calls)].fi.params[i].name) # None
       /\ EnvGet(Cur, calls[Len(calls)].fi.params[i].name) # calls[Len(calls)].cells[i]

-----------------------------------------------------------------------------
(* The registrations of the function table *)

\* the call at ip binds its i-th formal, of type func, and no later formal has
\* the same name
BindsFuncFormal(i) ==
  /\ func_cache[Callee].params[i].type = FUNC_DEF
  /\ \A j \in (i + 1)..Len(Actuals) :
       func_cache[Callee].params[j].name # func_cache[Callee].params[i].name

\* a call that binds a func formal registers the FuncInfo of the actual under
\* the formal's name
CallRegistersFormal ==
  (UserCall /\ error' = "none" /\ ~UnknownCallee)
    => \A i \in 1..Len(Actuals) :
         BindsFuncFormal(i)
           => \E r \in {_get_value(Cur, Actuals[i])} :
                /\ func_cache[Callee].params[i].name \in DOMAIN func_cache'
                /\ func_cache'[func_cache[Callee].params[i].name] = r.m.values[r.c].fi

\* an assignment of a Func value registers its FuncInfo under the name of the
\* target
AssignmentRegisters ==
  (Dispatch(ASSIGN_DEF) /\ Len(Args) >= 2 /\ error' = "none")
    => \E r \in {_eval_expression(Cur, Tail(Args))} :
         r.m.values[r.c].t = "FUNC"
           => /\ TokenName(Args[1]) \in DOMAIN func_cache'
              /\ func_cache'[TokenName(Args[1])] = r.m.values[r.c].fi

\* a step that pops a frame leaves every registration as it is
PopKeepsRegistrations ==
  Len(environment') < Len(environment) => func_cache' = func_cache

\* a call enters the body of the FuncInfo registered under its name, in every
\* frame
CallInvokesRegistered ==
  (UserCall /\ error' = "none" /\ ~UnknownCallee)
    => ip' = func_cache'[Callee].start_ip

\* C23: the registrations of the function table are global and a popped frame
\* undoes none: a call that binds a func formal named f and an assignment of a
\* Func value to a variable named f register the FuncInfo under f, a return
\* leaves the table as it is, and a funccall of f, in the caller and in every
\* other frame, enters the FuncInfo registered last under f.
C23_RegistrationsAreGlobal ==
  [][/\ CallRegistersFormal
     /\ AssignmentRegisters
     /\ PopKeepsRegistrations
     /\ CallInvokesRegistered]_vars

\* after a call that registered another FuncInfo under f has returned, main
\* has called f and entered the body registered last, not the function f of
\* the program
C23_Witness ==
  /\ error = "none" /\ Len(environment) = 2 /\ executed # <<>>
  /\ executed[Len(executed)] \in 1..ProgLen
  /\ Line(executed[Len(executed)]) = <<W(FUNCCALL_DEF), W("f")>>
  /\ "f" \in DOMAIN InitFuncCache(tokenized_program)
  /\ func_cache["f"] # InitFuncCache(tokenized_program)["f"]
  /\ ip = func_cache["f"].start_ip

====
